---- MODULE Spec2Model ----
(***************************************************************************)
(* Model of the API Aggregator MCP server: the tool registry of MCPServer, *)
(* its two protocol adapters (POST /tools/{name} and POST /mcp), the error *)
(* taxonomy of utils/errors.py and the tool handlers behind them.          *)
(*                                                                         *)
(* Python values are dynamically typed.  Every Python value of the model   *)
(* is a record with exactly one field, whose name is the Python type:      *)
(*   [none |-> TRUE]   None            [str |-> "Paris"]   a str           *)
(*   [int |-> 5]       an int          [dict |-> f]        a dict, f maps  *)
(*   [list |-> s]      a list                              str keys to     *)
(*   [repr |-> v]      the str that str(v) returns         Python values   *)
(***************************************************************************)
EXTENDS Integers, Sequences, FiniteSets, TLC

VARIABLES
    settings,    \* the Settings singleton (utils/config.py), read-only
    started,     \* TRUE once create_app has run
    _tools,      \* MCPServer._tools: name -> ToolSchema, insertion-ordered
    _handlers,   \* MCPServer._handlers: name -> handler, insertion-ordered
    tasks,       \* the request tasks of the event loop, one per slot; a
                 \* task also records what it did: lookup, called, upstream,
                 \* reply, raised, data_after, session (the
                 \* ClientSession it opened, 0 when none), and seen (the number of
                 \* register_tool calls made before it ran)
    regLog,      \* history: the register_tool calls made so far, in order
    sessions     \* the aiohttp.ClientSession objects that are open, by id

vars == <<settings, started, _tools, _handlers, tasks, regLog, sessions>>

----------------------------------------------------------------------------
(* Bounds of the model *)

MaxRegs == 3     \* register_tool calls explored by SpecRegistry
MaxTasks == 1    \* request tasks in flight at the same time
MaxConcurrent == 2   \* request tasks in flight at the same time in
                     \* SpecConcurrent, which explores fewer requests

Slots == 1..MaxTasks

----------------------------------------------------------------------------
(* Python values *)

PyNone == [none |-> TRUE]
PyStr(s) == [str |-> s]
PyInt(i) == [int |-> i]
PyDict(f) == [dict |-> f]
PyList(s) == [list |-> s]
PyRepr(v) == [repr |-> v]

EmptyMap == [k \in {} |-> PyNone]
EmptyDict == PyDict(EmptyMap)

IsNone(v) == "none" \in DOMAIN v
IsStr(v) == "str" \in DOMAIN v
IsInt(v) == "int" \in DOMAIN v
IsDict(v) == "dict" \in DOMAIN v
IsList(v) == "list" \in DOMAIN v

\* Python truth value testing: None, "", 0, {} and [] are false.
Truthy(v) ==
    CASE IsNone(v) -> FALSE
      [] IsStr(v) -> v.str # ""
      [] IsInt(v) -> v.int # 0
      [] IsDict(v) -> DOMAIN v.dict # {}
      [] IsList(v) -> Len(v.list) > 0
      [] OTHER -> TRUE

\* dict.get(key, default)
PyGet(d, k, default) == IF k \in DOMAIN d.dict THEN d.dict[k] ELSE default

\* d[key] = value on a str-keyed dict
PySetItem(d, k, v) ==
    PyDict([x \in (DOMAIN d.dict) \cup {k} |-> IF x = k THEN v ELSE d.dict[x]])

----------------------------------------------------------------------------
(* Insertion-ordered dict (the dict of CPython 3.7+), as the sequence of   *)
(* its items in insertion order; no key occurs twice.                      *)

DictKeys(d) == [i \in 1..Len(d) |-> d[i].key]
DictValues(d) == [i \in 1..Len(d) |-> d[i].value]
DictHas(d, k) == \E i \in 1..Len(d) : d[i].key = k
DictIndex(d, k) == CHOOSE i \in 1..Len(d) : d[i].key = k
DictGet(d, k) == d[DictIndex(d, k)].value

\* d[k] = v: a new key is appended, an existing key keeps its position.
DictSet_prepends(d, k, v) ==
    IF DictHas(d, k)
    THEN [d EXCEPT ![DictIndex(d, k)] = [key |-> k, value |-> v]]
    ELSE <<[key |-> k, value |-> v]>> \o d

DictSet(d, k, v) ==
    IF DictHas(d, k)
    THEN [d EXCEPT ![DictIndex(d, k)] = [key |-> k, value |-> v]]
    ELSE Append(d, [key |-> k, value |-> v])

----------------------------------------------------------------------------
(* utils/errors.py *)

PARSE_ERROR == -32700
INVALID_REQUEST == -32600
METHOD_NOT_FOUND == -32601
INVALID_PARAMS == -32602
INTERNAL_ERROR == -32603
API_KEY_MISSING == -32001
API_KEY_INVALID == -32002
EXTERNAL_API_ERROR == -32003
RATE_LIMIT_EXCEEDED == -32004
TOOL_NOT_AVAILABLE == -32005

\* APIError(message, code, data, original_error): data is a dict or None,
\* original_error is None or the str() of the exception it wraps.
APIError(message, code, data, original_error) ==
    [message |-> message, code |-> code, data |-> data,
     original_error |-> original_error]

\* An exception that is not an APIError: its class and the text str() gives.
\* Exceptions raised by aiohttp and by the interpreter carry no `response`
\* attribute; an exception that does carries `response_status`.
PyException(type, text) == [type |-> type, text |-> text]

IsAPIError(e) == "code" \in DOMAIN e

\* str(e)
ExcStr(e) == IF IsAPIError(e) THEN e.message ELSE e.text

\* APIError.to_mcp_error: the MCPError it returns, and self.data afterwards
\* (error_data aliases self.data when self.data is a non-empty dict, so the
\* item assignment writes into the exception's own mapping).
to_mcp_error(self) ==
    LET aliased == Truthy(self.data)
        error_data0 == IF aliased THEN self.data ELSE EmptyDict
        has_original == ~IsNone(self.original_error)
        error_data == IF has_original
                      THEN PySetItem(error_data0, "original_error",
                                     PyStr(ExcStr(self.original_error)))
                      ELSE error_data0
    IN  [mcp |-> [code |-> self.code, message |-> self.message,
                  data |-> IF Truthy(error_data) THEN error_data ELSE PyNone],
         self_data |-> IF aliased THEN error_data ELSE self.data]

handle_external_api_error(error, api_name, operation) ==
    LET data == PyDict([k \in {"api", "operation"} |->
                          IF k = "api" THEN PyStr(api_name) ELSE PyStr(operation)])
        status == IF "response_status" \in DOMAIN error
                  THEN error.response_status ELSE 0
    IN  IF status = 401
        THEN APIError("Invalid API key for " \o api_name, API_KEY_INVALID, data, error)
        ELSE IF status = 429
        THEN APIError("Rate limit exceeded for " \o api_name, RATE_LIMIT_EXCEEDED,
                      data, error)
        ELSE APIError("External API error: " \o api_name \o " " \o operation
                      \o " failed", EXTERNAL_API_ERROR, data, error)

create_validation_error_without_value(field, value, message) ==
    APIError("Invalid parameter '" \o field \o "': " \o message, INVALID_PARAMS,
             PyDict([k \in {"field"} |-> PyStr(field)]), PyNone)

create_validation_error(field, value, message) ==
    APIError("Invalid parameter '" \o field \o "': " \o message, INVALID_PARAMS,
             PyDict([k \in {"field", "value"} |->
                       IF k = "field" THEN PyStr(field) ELSE value]),
             PyNone)

create_missing_api_key_error(api_name) ==
    APIError("API key missing for " \o api_name, API_KEY_MISSING,
             PyDict([k \in {"api"} |-> PyStr(api_name)]), PyNone)

----------------------------------------------------------------------------
(* Coroutines.  A handler runs without interruption until it awaits the    *)
(* upstream HTTP call (the only point where it suspends) or until it ends. *)

Returned(v) == [kind |-> "return", value |-> v]
Raised(e) == [kind |-> "raise", exc |-> e]
Awaiting(call) == [kind |-> "await", call |-> call]

\* What the upstream call gives back: an exception raised by aiohttp while
\* connecting or reading, or an HTTP response.  `json` is the parsed body,
\* or NotJSON when response.json() cannot parse it.
NotJSON == [not_json |-> TRUE]
ReplyFailed(e) == [failed |-> TRUE, exc |-> e]
ReplyHTTP(status, json, text, content_type) ==
    [failed |-> FALSE, status |-> status, json |-> json, text |-> text,
     content_type |-> content_type]

\* `async with aiohttp.ClientSession() as session:` on entry: a new session
\* object, distinct from every session that exists, is opened.  `open` is
\* the set of open sessions and `in_use` the ids that name a session.
ClientSession_aenter(open, in_use) ==
    LET session == CHOOSE i \in 1..(Cardinality(open \cup in_use) + 1) :
                       /\ i \notin open \cup in_use
                       /\ \A j \in 1..(i - 1) : j \in open \cup in_use
    IN  [session |-> session, open |-> open \cup {session}]

ClientSession_aexit_leaks_on_error(open, session, outcome) ==
    IF outcome.kind = "raise" THEN open ELSE open \ {session}

\* The same statement on exit: the session is closed however the block is
\* left, by a return or by an exception.
ClientSession_aexit(open, session, outcome) == open \ {session}

\* await response.json()
ResponseJson(reply) ==
    IF reply.json = NotJSON
    THEN Raised(PyException("ContentTypeError", "Attempt to decode JSON with unexpected mimetype"))
    ELSE Returned(reply.json)

\* str.strip() and str.upper() on the strings of the model
Strip(s) ==
    CASE s = " " -> ""
      [] s = " Paris " -> "Paris"
      [] OTHER -> s

Upper(s) ==
    CASE s = "aapl" -> "AAPL"
      [] s = "apple" -> "APPLE"
      [] OTHER -> s

\* format(v) inside an f-string
PyFormat(v) ==
    CASE IsStr(v) -> v.str
      [] IsInt(v) -> ToString(v.int)
      [] "float" \in DOMAIN v -> v.float
      [] IsNone(v) -> "None"
      [] OTHER -> "?"

\* The class name that an AttributeError or TypeError message quotes.
PyTypeName(v) ==
    CASE IsStr(v) -> "str"
      [] IsInt(v) -> "int"
      [] IsNone(v) -> "NoneType"
      [] IsDict(v) -> "dict"
      [] IsList(v) -> "list"
      [] OTHER -> "object"

NoAttribute(v, attr) ==
    PyException("AttributeError",
                "'" \o PyTypeName(v) \o "' object has no attribute '" \o attr \o "'")

\* v[step] for a dict key or the list index "0": the value, or the exception
\* the subscript raises.
Subscript(v, step) ==
    IF IsDict(v)
    THEN IF step \in DOMAIN v.dict
         THEN Returned(v.dict[step])
         ELSE Raised(PyException("KeyError", "'" \o step \o "'"))
    ELSE IF IsList(v)
    THEN IF step = "0" /\ Len(v.list) > 0
         THEN Returned(v.list[1])
         ELSE IF step = "0"
         THEN Raised(PyException("IndexError", "list index out of range"))
         ELSE Raised(PyException("TypeError", "list indices must be integers or slices, not str"))
    ELSE Raised(PyException("TypeError", "'" \o PyTypeName(v) \o "' object is not subscriptable"))

RECURSIVE Path(_, _)
Path(v, path) ==
    IF path = <<>> THEN Returned(v)
    ELSE LET r == Subscript(v, Head(path))
         IN  IF r.kind = "raise" THEN r ELSE Path(r.value, Tail(path))

\* The first exception raised when the paths are evaluated in order, or
\* Returned(PyNone) when every subscript succeeds.
RECURSIVE FirstFailure(_, _)
FirstFailure(v, paths) ==
    IF paths = <<>> THEN Returned(PyNone)
    ELSE LET r == Path(v, Head(paths))
         IN  IF r.kind = "raise" THEN r ELSE FirstFailure(v, Tail(paths))

At(v, path) == Path(v, path).value

\* A dict literal {k1: v1, ...}, given as a sequence of <<key, value>>
MkDict(items) ==
    PyDict([k \in {items[i][1] : i \in 1..Len(items)} |->
              (CHOOSE it \in {items[i] : i \in 1..Len(items)} : it[1] = k)[2]])

----------------------------------------------------------------------------
(* tools/weather.py *)

WeatherUnits == {"metric", "imperial", "kelvin"}

\* f"{v / 1000:.1f}" for a non-negative int v (one decimal, truncated)
FormatKm(v) == ToString(v \div 1000) \o "." \o ToString((v % 1000) \div 100)

WeatherPaths ==
    << <<"name">>, <<"sys", "country">>, <<"coord", "lat">>, <<"coord", "lon">>,
       <<"weather", "0", "main">>, <<"weather", "0", "description">>,
       <<"weather", "0", "icon">>, <<"main", "temp">>, <<"main", "feels_like">>,
       <<"main", "temp_min">>, <<"main", "temp_max">>, <<"main", "humidity">>,
       <<"main", "pressure">>, <<"wind", "speed">>, <<"wind">>,
       <<"clouds", "all">>, <<"dt">>, <<"timezone">> >>

\* The unit symbols and the wind direction are written without the degree
\* sign of the source ("°C", "°F", "<deg>°"); no property reads them.
_normalize_weather_data(data, units) ==
    LET temp_unit == CASE units = "metric" -> "C"
                       [] units = "imperial" -> "F"
                       [] OTHER -> "K"
        speed_unit == IF units = "metric" THEN "m/s"
                      ELSE IF units = "imperial" THEN "mph" ELSE "m/s"
        failure == FirstFailure(data, WeatherPaths)
        visibility == PyGet(data, "visibility", PyInt(0))
        wind == At(data, <<"wind">>)
    IN  IF failure.kind = "raise" THEN failure
        ELSE IF ~IsInt(visibility)
        THEN Raised(PyException("TypeError",
                 "unsupported operand type(s) for /: '" \o PyTypeName(visibility)
                 \o "' and 'int'"))
        ELSE IF ~IsDict(wind) THEN Raised(NoAttribute(wind, "get"))
        ELSE Returned(MkDict(<<
            <<"location", MkDict(<<
                <<"city", At(data, <<"name">>)>>,
                <<"country", At(data, <<"sys", "country">>)>>,
                <<"coordinates", MkDict(<<
                    <<"latitude", At(data, <<"coord", "lat">>)>>,
                    <<"longitude", At(data, <<"coord", "lon">>)>> >>)>> >>)>>,
            <<"weather", MkDict(<<
                <<"condition", At(data, <<"weather", "0", "main">>)>>,
                <<"description", At(data, <<"weather", "0", "description">>)>>,
                <<"icon", At(data, <<"weather", "0", "icon">>)>> >>)>>,
            <<"temperature", MkDict(<<
                <<"current", At(data, <<"main", "temp">>)>>,
                <<"feels_like", At(data, <<"main", "feels_like">>)>>,
                <<"min", At(data, <<"main", "temp_min">>)>>,
                <<"max", At(data, <<"main", "temp_max">>)>>,
                <<"unit", PyStr(temp_unit)>> >>)>>,
            <<"humidity", PyStr(PyFormat(At(data, <<"main", "humidity">>)) \o "%")>>,
            <<"pressure", PyStr(PyFormat(At(data, <<"main", "pressure">>)) \o " hPa")>>,
            <<"visibility", PyStr(FormatKm(visibility.int) \o " km")>>,
            <<"wind", MkDict(<<
                <<"speed", PyStr(PyFormat(At(data, <<"wind", "speed">>)) \o " "
                                 \o speed_unit)>>,
                <<"direction", PyStr(PyFormat(PyGet(wind, "deg", PyInt(0))))>> >>)>>,
            <<"clouds", PyStr(PyFormat(At(data, <<"clouds", "all">>)) \o "%")>>,
            <<"timestamp", At(data, <<"dt">>)>>,
            <<"timezone", At(data, <<"timezone">>)>>,
            <<"source", PyStr("OpenWeatherMap")>> >>))

\* WeatherService.get_current_weather up to the upstream call
get_current_weather_start(cfg, city, country, units) ==
    IF ~Truthy(cfg.openweather_api_key)
    THEN Raised(create_missing_api_key_error("OpenWeatherMap"))
    ELSE IF ~Truthy(city)
    THEN Raised(create_validation_error("city", city, "City name cannot be empty"))
    ELSE IF ~IsStr(city) THEN Raised(NoAttribute(city, "strip"))
    ELSE IF Strip(city.str) = ""
    THEN Raised(create_validation_error("city", city, "City name cannot be empty"))
    ELSE IF ~(IsStr(units) /\ units.str \in WeatherUnits)
    THEN Raised(create_validation_error("units", units,
                    "Units must be one of: metric, imperial, kelvin"))
    ELSE IF Truthy(country) /\ ~IsStr(country)
    THEN Raised(NoAttribute(country, "strip"))
    ELSE LET location == IF Truthy(country)
                         THEN Strip(city.str) \o "," \o Strip(country.str)
                         ELSE Strip(city.str)
         IN  Awaiting([api |-> "OpenWeatherMap",
                       url |-> "https://api.openweathermap.org/data/2.5/weather",
                       params |-> MkDict(<< <<"q", PyStr(location)>>,
                                            <<"appid", cfg.openweather_api_key>>,
                                            <<"units", units>> >>),
                       location |-> location,
                       units |-> units.str])

except_clauses_translate_all(outcome, api_name, operation) ==
    IF outcome.kind = "raise"
    THEN Raised(handle_external_api_error(outcome.exc, api_name, operation))
    ELSE outcome

\* The except clauses that close the try block of every service method:
\*     except aiohttp.ClientError as e: raise handle_external_api_error(e, ...)
\*     except APIError: raise
\*     except Exception as e: raise handle_external_api_error(e, ...)
\* applied to what the block did.
except_clauses(outcome, api_name, operation) ==
    IF outcome.kind = "raise" /\ ~IsAPIError(outcome.exc)
    THEN Raised(handle_external_api_error(outcome.exc, api_name, operation))
    ELSE outcome

\* WeatherService.get_current_weather from the upstream reply on
get_current_weather_resume(call, reply) ==
    except_clauses(
    IF reply.failed THEN Raised(reply.exc)
    ELSE IF reply.status = 200
    THEN LET data == ResponseJson(reply)
         IN  IF data.kind = "raise" THEN data
             ELSE _normalize_weather_data(data.value, call.units)
    ELSE IF reply.status = 401
    THEN Raised(APIError("Invalid OpenWeatherMap API key", API_KEY_INVALID,
                         MkDict(<< <<"api", PyStr("OpenWeatherMap")>> >>), PyNone))
    ELSE IF reply.status = 404
    THEN Raised(APIError("City '" \o call.location \o "' not found", INVALID_PARAMS,
                         MkDict(<< <<"city", PyStr(call.location)>> >>), PyNone))
    ELSE Raised(APIError("OpenWeatherMap API error: " \o ToString(reply.status),
                         EXTERNAL_API_ERROR,
                         MkDict(<< <<"status_code", PyInt(reply.status)>>,
                                   <<"response", PyStr(reply.text)>> >>), PyNone)),
    "OpenWeatherMap", "get_weather")

get_weather_handler_start(cfg, parameters) ==
    IF ~IsDict(parameters) THEN Raised(NoAttribute(parameters, "get"))
    ELSE LET city == PyGet(parameters, "city", PyNone)
             country == PyGet(parameters, "country", PyNone)
             units == PyGet(parameters, "units", PyStr("metric"))
         IN  IF ~Truthy(city)
             THEN Raised(create_validation_error("city", city,
                                                 "City parameter is required"))
             ELSE get_current_weather_start(cfg, city, country, units)

get_weather_handler_resume(call, reply) == get_current_weather_resume(call, reply)

----------------------------------------------------------------------------
(* tools/news.py *)

valid_categories ==
    {"business", "entertainment", "general", "health", "science", "sports",
     "technology"}

\* datetime.fromisoformat(s.replace('Z', '+00:00')).strftime(
\*     "%Y-%m-%d %H:%M:%S UTC") on the timestamps of the model; any other
\* value raises inside the try, and the bare except keeps it as it is.
FormatPublishedAt(published_at) ==
    IF published_at = PyStr("2024-05-01T10:00:00Z")
    THEN PyStr("2024-05-01 10:00:00 UTC")
    ELSE published_at

\* One iteration of the loop over data["articles"]
NormalizeArticle(article) ==
    IF ~IsDict(article) THEN Raised(NoAttribute(article, "get"))
    ELSE LET published_at == PyGet(article, "publishedAt", PyNone)
             formatted_date == IF Truthy(published_at)
                               THEN FormatPublishedAt(published_at)
                               ELSE PyStr("Unknown")
             source == PyGet(article, "source", EmptyDict)
         IN  IF ~IsDict(source) THEN Raised(NoAttribute(source, "get"))
             ELSE Returned(MkDict(<<
                 <<"title", PyGet(article, "title", PyStr("No title"))>>,
                 <<"description", PyGet(article, "description",
                                        PyStr("No description available"))>>,
                 <<"url", PyGet(article, "url", PyNone)>>,
                 <<"source", MkDict(<<
                     <<"name", PyGet(source, "name", PyStr("Unknown"))>>,
                     <<"id", PyGet(source, "id", PyNone)>> >>)>>,
                 <<"author", PyGet(article, "author", PyStr("Unknown"))>>,
                 <<"published_at", formatted_date>>,
                 <<"url_to_image", PyGet(article, "urlToImage", PyNone)>> >>))

\* `now` is what datetime.utcnow().strftime(...) gives when it is called.
_normalize_news_data(data, query, category, country, now) ==
    IF ~IsDict(data) THEN Raised(NoAttribute(data, "get"))
    ELSE LET raw == PyGet(data, "articles", PyList(<<>>))
         IN  IF ~IsList(raw)
             THEN Raised(PyException("TypeError", "'" \o PyTypeName(raw)
                                     \o "' object is not iterable"))
             ELSE LET each == [i \in 1..Len(raw.list) |-> NormalizeArticle(raw.list[i])]
                      bad == {i \in 1..Len(raw.list) : each[i].kind = "raise"}
                  IN  IF bad # {}
                      THEN each[CHOOSE i \in bad : \A j \in bad : i <= j]
                      ELSE LET articles == [i \in 1..Len(raw.list) |-> each[i].value]
                           IN  Returned(MkDict(<<
                                 <<"query_info", MkDict(<<
                                     <<"search_query", query>>,
                                     <<"category", category>>,
                                     <<"country", country>>,
                                     <<"total_results",
                                       PyGet(data, "totalResults", PyInt(0))>>,
                                     <<"articles_returned", PyInt(Len(articles))>> >>)>>,
                                 <<"articles", PyList(articles)>>,
                                 <<"source", PyStr("News API")>>,
                                 <<"retrieved_at", PyStr(now)>> >>))

get_news_start_always_defaults_country(cfg, query, category, country, page_size) ==
    IF ~Truthy(cfg.news_api_key)
    THEN Raised(create_missing_api_key_error("News API"))
    ELSE IF ~IsInt(page_size)
    THEN Raised(PyException("TypeError",
             "'<' not supported between instances of '" \o PyTypeName(page_size)
             \o "' and 'int'"))
    ELSE IF page_size.int < 1 \/ page_size.int > 100
    THEN Raised(create_validation_error("page_size", page_size,
                    "Page size must be between 1 and 100"))
    ELSE IF Truthy(category) /\ ~(IsStr(category) /\ category.str \in valid_categories)
    THEN Raised(create_validation_error("category", category,
                    "Category must be one of: business, entertainment, general, health, science, sports, technology"))
    ELSE LET endpoint == IF Truthy(query) THEN "everything" ELSE "top-headlines"
             base == IF Truthy(query)
                     THEN MkDict(<< <<"q", query>>, <<"pageSize", page_size>>,
                                    <<"sortBy", PyStr("publishedAt")>>,
                                    <<"language", PyStr("en")>> >>)
                     ELSE LET p0 == MkDict(<< <<"pageSize", page_size>> >>)
                              p1 == IF Truthy(category)
                                    THEN PySetItem(p0, "category", category) ELSE p0
                          IN  IF Truthy(country)
                              THEN PySetItem(p1, "country", country)
                              ELSE PySetItem(p1, "country", PyStr("us"))
         IN  Awaiting([api |-> "News API",
                       url |-> "https://newsapi.org/v2/" \o endpoint,
                       params |-> PySetItem(base, "apiKey", cfg.news_api_key),
                       query |-> query, category |-> category,
                       country |-> country])

\* NewsService.get_news up to the upstream call
get_news_start(cfg, query, category, country, page_size) ==
    IF ~Truthy(cfg.news_api_key)
    THEN Raised(create_missing_api_key_error("News API"))
    ELSE IF ~IsInt(page_size)
    THEN Raised(PyException("TypeError",
             "'<' not supported between instances of '" \o PyTypeName(page_size)
             \o "' and 'int'"))
    ELSE IF page_size.int < 1 \/ page_size.int > 100
    THEN Raised(create_validation_error("page_size", page_size,
                    "Page size must be between 1 and 100"))
    ELSE IF Truthy(category) /\ ~(IsStr(category) /\ category.str \in valid_categories)
    THEN Raised(create_validation_error("category", category,
                    "Category must be one of: business, entertainment, general, health, science, sports, technology"))
    ELSE LET endpoint == IF Truthy(query) THEN "everything" ELSE "top-headlines"
             base == IF Truthy(query)
                     THEN MkDict(<< <<"q", query>>, <<"pageSize", page_size>>,
                                    <<"sortBy", PyStr("publishedAt")>>,
                                    <<"language", PyStr("en")>> >>)
                     ELSE LET p0 == MkDict(<< <<"pageSize", page_size>> >>)
                              p1 == IF Truthy(category)
                                    THEN PySetItem(p0, "category", category) ELSE p0
                          IN  IF Truthy(country)
                              THEN PySetItem(p1, "country", country)
                              ELSE IF ~Truthy(category)
                              THEN PySetItem(p1, "country", PyStr("us"))
                              ELSE p1
         IN  Awaiting([api |-> "News API",
                       url |-> "https://newsapi.org/v2/" \o endpoint,
                       params |-> PySetItem(base, "apiKey", cfg.news_api_key),
                       query |-> query, category |-> category,
                       country |-> country])

\* NewsService.get_news from the upstream reply on
get_news_resume(call, reply, now) ==
    except_clauses(
    IF reply.failed THEN Raised(reply.exc)
    ELSE IF reply.status = 200
    THEN LET data == ResponseJson(reply)
         IN  IF data.kind = "raise" THEN data
             ELSE _normalize_news_data(data.value, call.query,
                                       call.category, call.country, now)
    ELSE IF reply.status = 401
    THEN Raised(APIError("Invalid News API key", API_KEY_INVALID,
                         MkDict(<< <<"api", PyStr("News API")>> >>), PyNone))
    ELSE IF reply.status = 429
    THEN Raised(APIError("News API rate limit exceeded", RATE_LIMIT_EXCEEDED,
                         MkDict(<< <<"api", PyStr("News API")>> >>), PyNone))
    ELSE LET error_data == IF reply.content_type = "application/json"
                           THEN ResponseJson(reply) ELSE Returned(EmptyDict)
         IN  IF error_data.kind = "raise" THEN error_data
             ELSE Raised(APIError("News API error: " \o ToString(reply.status),
                                  EXTERNAL_API_ERROR,
                                  MkDict(<< <<"status_code", PyInt(reply.status)>>,
                                            <<"response", error_data.value>> >>),
                                  PyNone)),
    "News API", "get_news")

get_news_handler_start(cfg, parameters) ==
    IF ~IsDict(parameters) THEN Raised(NoAttribute(parameters, "get"))
    ELSE get_news_start(cfg, PyGet(parameters, "query", PyNone),
                        PyGet(parameters, "category", PyNone),
                        PyGet(parameters, "country", PyNone),
                        PyGet(parameters, "page_size", PyInt(10)))

\* after the await: result["articles"] is read for the log line only
get_news_handler_resume(call, reply, now) == get_news_resume(call, reply, now)

----------------------------------------------------------------------------
(* tools/stock.py *)

PyFloat(text) == [float |-> text]

\* float(v) on the values of the model: the float, as its repr
ToFloat(v) ==
    CASE v = PyInt(0) -> Returned(PyFloat("0.0"))
      [] v = PyStr("150.25") -> Returned(PyFloat("150.25"))
      [] v = PyStr("149.00") -> Returned(PyFloat("149.0"))
      [] v = PyStr("1.25") -> Returned(PyFloat("1.25"))
      [] IsStr(v) -> Raised(PyException("ValueError",
                         "could not convert string to float: '" \o v.str \o "'"))
      [] OTHER -> Raised(PyException("TypeError",
                         "float() argument must be a string or a real number, not '"
                         \o PyTypeName(v) \o "'"))

\* int(v) on the values of the model
ToInt(v) ==
    CASE IsInt(v) -> Returned(v)
      [] v = PyStr("1000") -> Returned(PyInt(1000))
      [] IsStr(v) -> Raised(PyException("ValueError",
                         "invalid literal for int() with base 10: '" \o v.str \o "'"))
      [] OTHER -> Raised(PyException("TypeError",
                         "int() argument must be a string, a bytes-like object or a real number, not '"
                         \o PyTypeName(v) \o "'"))

\* s.replace("%", "") on the strings of the model
RemovePercent(s) ==
    CASE s = "0%" -> "0"
      [] s = "0.84%" -> "0.84"
      [] OTHER -> s

Contains_misses_note(data, key) ==
    IF IsDict(data) THEN Returned(key # "Note" /\ key \in DOMAIN data.dict)
    ELSE IF IsList(data)
    THEN Returned(\E i \in 1..Len(data.list) : data.list[i] = PyStr(key))
    ELSE IF IsStr(data) THEN Returned(data.str = key)
    ELSE Raised(PyException("TypeError", "argument of type '" \o PyTypeName(data)
                            \o "' is not iterable"))

\* `key in data`: a key of a dict, an element of a list, a substring of a
\* str (no string of the model has a key as a proper substring)
Contains(data, key) ==
    IF IsDict(data) THEN Returned(key \in DOMAIN data.dict)
    ELSE IF IsList(data)
    THEN Returned(\E i \in 1..Len(data.list) : data.list[i] = PyStr(key))
    ELSE IF IsStr(data) THEN Returned(data.str = key)
    ELSE Raised(PyException("TypeError", "argument of type '" \o PyTypeName(data)
                            \o "' is not iterable"))

\* The first conversion that raises, in evaluation order, or Returned(PyNone)
RECURSIVE FirstRaise(_)
FirstRaise(results) ==
    IF results = <<>> THEN Returned(PyNone)
    ELSE IF Head(results).kind = "raise" THEN Head(results)
    ELSE FirstRaise(Tail(results))

_normalize_stock_data(data, symbol) ==
    LET has_error == Contains(data, "Error Message") IN
    IF has_error.kind = "raise" THEN has_error
    ELSE IF has_error.value
    THEN Raised(APIError("Invalid stock symbol: " \o symbol, INVALID_PARAMS,
                         MkDict(<< <<"symbol", PyStr(symbol)>>,
                                   <<"error", data.dict["Error Message"]>> >>),
                         PyNone))
    ELSE IF Contains(data, "Note").value
    THEN Raised(APIError("Alpha Vantage API rate limit exceeded", RATE_LIMIT_EXCEEDED,
                         MkDict(<< <<"api", PyStr("Alpha Vantage")>> >>), PyNone))
    ELSE IF ~IsDict(data) THEN Raised(NoAttribute(data, "get"))
    ELSE LET quote == PyGet(data, "Global Quote", EmptyDict) IN
    IF ~Truthy(quote)
    THEN Raised(APIError("No data available for symbol: " \o symbol,
                         EXTERNAL_API_ERROR,
                         MkDict(<< <<"symbol", PyStr(symbol)>> >>), PyNone))
    ELSE IF ~IsDict(quote) THEN Raised(NoAttribute(quote, "get"))
    ELSE LET current_price == ToFloat(PyGet(quote, "05. price", PyInt(0)))
             previous_close == ToFloat(PyGet(quote, "08. previous close", PyInt(0)))
             change == ToFloat(PyGet(quote, "09. change", PyInt(0)))
             raw_percent == PyGet(quote, "10. change percent", PyStr("0%"))
             open == ToFloat(PyGet(quote, "02. open", PyInt(0)))
             high == ToFloat(PyGet(quote, "03. high", PyInt(0)))
             low == ToFloat(PyGet(quote, "04. low", PyInt(0)))
             volume == ToInt(PyGet(quote, "06. volume", PyInt(0)))
             percent == IF IsStr(raw_percent)
                        THEN Returned(PyStr(RemovePercent(raw_percent.str) \o "%"))
                        ELSE Raised(NoAttribute(raw_percent, "replace"))
             failure == FirstRaise(<<current_price, previous_close, change, percent,
                                     open, high, low, volume>>)
         IN  IF failure.kind = "raise" THEN failure
             ELSE Returned(MkDict(<<
                 <<"symbol", PyGet(quote, "01. symbol", PyStr(symbol))>>,
                 <<"price", MkDict(<<
                     <<"current", current_price.value>>,
                     <<"previous_close", previous_close.value>>,
                     <<"change", change.value>>,
                     <<"change_percent", percent.value>>,
                     <<"currency", PyStr("USD")>> >>)>>,
                 <<"trading", MkDict(<<
                     <<"open", open.value>>, <<"high", high.value>>,
                     <<"low", low.value>>, <<"volume", volume.value>> >>)>>,
                 <<"last_trading_day",
                   PyGet(quote, "07. latest trading day", PyStr("Unknown"))>>,
                 <<"source", PyStr("Alpha Vantage")>> >>))

\* One iteration of the loop over data["bestMatches"]
NormalizeMatch(match) ==
    IF ~IsDict(match) THEN Raised(NoAttribute(match, "get"))
    ELSE LET score == ToFloat(PyGet(match, "9. matchScore", PyInt(0)))
         IN  IF score.kind = "raise" THEN score
             ELSE Returned(MkDict(<<
                 <<"symbol", PyGet(match, "1. symbol", PyStr(""))>>,
                 <<"name", PyGet(match, "2. name", PyStr(""))>>,
                 <<"type", PyGet(match, "3. type", PyStr(""))>>,
                 <<"region", PyGet(match, "4. region", PyStr(""))>>,
                 <<"market_open", PyGet(match, "5. marketOpen", PyStr(""))>>,
                 <<"market_close", PyGet(match, "6. marketClose", PyStr(""))>>,
                 <<"timezone", PyGet(match, "7. timezone", PyStr(""))>>,
                 <<"currency", PyGet(match, "8. currency", PyStr(""))>>,
                 <<"match_score", score.value>> >>))

_normalize_search_data(data, keywords) ==
    LET has_error == Contains(data, "Error Message") IN
    IF has_error.kind = "raise" THEN has_error
    ELSE IF has_error.value
    THEN Raised(APIError("Search error: " \o PyFormat(data.dict["Error Message"]),
                         EXTERNAL_API_ERROR,
                         MkDict(<< <<"keywords", PyStr(keywords)>> >>), PyNone))
    ELSE IF Contains(data, "Note").value
    THEN Raised(APIError("Alpha Vantage API rate limit exceeded", RATE_LIMIT_EXCEEDED,
                         MkDict(<< <<"api", PyStr("Alpha Vantage")>> >>), PyNone))
    ELSE IF ~IsDict(data) THEN Raised(NoAttribute(data, "get"))
    ELSE LET matches == PyGet(data, "bestMatches", PyList(<<>>)) IN
    IF ~IsList(matches)
    THEN Raised(PyException("TypeError", "'" \o PyTypeName(matches)
                            \o "' object is not iterable"))
    ELSE LET each == [i \in 1..Len(matches.list) |-> NormalizeMatch(matches.list[i])]
             bad == {i \in 1..Len(matches.list) : each[i].kind = "raise"}
         IN  IF bad # {}
             THEN each[CHOOSE i \in bad : \A j \in bad : i <= j]
             ELSE LET results == [i \in 1..Len(matches.list) |-> each[i].value]
                  IN  Returned(MkDict(<<
                        <<"search_keywords", PyStr(keywords)>>,
                        <<"total_matches", PyInt(Len(results))>>,
                        <<"matches", PyList(results)>>,
                        <<"source", PyStr("Alpha Vantage")>> >>))

AlphaVantageUrl == "https://www.alphavantage.co/query"

AlphaVantageStatusError_not_found_is_invalid(reply) ==
    IF reply.status = 404
    THEN APIError("Not found", INVALID_PARAMS, PyNone, PyNone)
    ELSE APIError("Alpha Vantage API error: " \o ToString(reply.status),
                  EXTERNAL_API_ERROR,
                  MkDict(<< <<"status_code", PyInt(reply.status)>>,
                            <<"response", PyStr(reply.text)>> >>), PyNone)

\* The non-200 branch shared by both StockService methods
AlphaVantageStatusError(reply) ==
    APIError("Alpha Vantage API error: " \o ToString(reply.status), EXTERNAL_API_ERROR,
             MkDict(<< <<"status_code", PyInt(reply.status)>>,
                       <<"response", PyStr(reply.text)>> >>), PyNone)

\* StockService.get_stock_quote up to the upstream call
get_stock_quote_start(cfg, symbol) ==
    IF ~Truthy(cfg.alpha_vantage_api_key)
    THEN Raised(create_missing_api_key_error("Alpha Vantage"))
    ELSE IF ~Truthy(symbol)
    THEN Raised(create_validation_error("symbol", symbol, "Stock symbol cannot be empty"))
    ELSE IF ~IsStr(symbol) THEN Raised(NoAttribute(symbol, "strip"))
    ELSE IF Strip(symbol.str) = ""
    THEN Raised(create_validation_error("symbol", symbol, "Stock symbol cannot be empty"))
    ELSE LET upper == Upper(Strip(symbol.str))
         IN  Awaiting([api |-> "Alpha Vantage", url |-> AlphaVantageUrl,
                       params |-> MkDict(<< <<"function", PyStr("GLOBAL_QUOTE")>>,
                                            <<"symbol", PyStr(upper)>>,
                                            <<"apikey", cfg.alpha_vantage_api_key>> >>),
                       symbol |-> upper])

get_stock_quote_resume_retries(call, reply) ==
    except_clauses(
    IF reply.failed THEN Awaiting(call)
    ELSE IF reply.status = 200
    THEN LET data == ResponseJson(reply)
         IN  IF data.kind = "raise" THEN data
             ELSE _normalize_stock_data(data.value, call.symbol)
    ELSE Raised(AlphaVantageStatusError(reply)),
    "Alpha Vantage", "get_stock_quote")

\* StockService.get_stock_quote from the upstream reply on
get_stock_quote_resume(call, reply) ==
    except_clauses(
    IF reply.failed THEN Raised(reply.exc)
    ELSE IF reply.status = 200
    THEN LET data == ResponseJson(reply)
         IN  IF data.kind = "raise" THEN data
             ELSE _normalize_stock_data(data.value, call.symbol)
    ELSE Raised(AlphaVantageStatusError(reply)),
    "Alpha Vantage", "get_stock_quote")

\* StockService.get_stock_search up to the upstream call
get_stock_search_start(cfg, keywords) ==
    IF ~Truthy(cfg.alpha_vantage_api_key)
    THEN Raised(create_missing_api_key_error("Alpha Vantage"))
    ELSE IF ~Truthy(keywords)
    THEN Raised(create_validation_error("keywords", keywords,
                                        "Search keywords cannot be empty"))
    ELSE IF ~IsStr(keywords) THEN Raised(NoAttribute(keywords, "strip"))
    ELSE IF Strip(keywords.str) = ""
    THEN Raised(create_validation_error("keywords", keywords,
                                        "Search keywords cannot be empty"))
    ELSE Awaiting([api |-> "Alpha Vantage", url |-> AlphaVantageUrl,
                   params |-> MkDict(<< <<"function", PyStr("SYMBOL_SEARCH")>>,
                                        <<"keywords", PyStr(Strip(keywords.str))>>,
                                        <<"apikey", cfg.alpha_vantage_api_key>> >>),
                   keywords |-> keywords.str])

\* StockService.get_stock_search from the upstream reply on
get_stock_search_resume(call, reply) ==
    except_clauses(
    IF reply.failed THEN Raised(reply.exc)
    ELSE IF reply.status = 200
    THEN LET data == ResponseJson(reply)
         IN  IF data.kind = "raise" THEN data
             ELSE _normalize_search_data(data.value, call.keywords)
    ELSE Raised(AlphaVantageStatusError(reply)),
    "Alpha Vantage", "get_stock_search")

get_stock_price_handler_start(cfg, parameters) ==
    IF ~IsDict(parameters) THEN Raised(NoAttribute(parameters, "get"))
    ELSE LET symbol == PyGet(parameters, "symbol", PyNone)
         IN  IF ~Truthy(symbol)
             THEN Raised(create_validation_error("symbol", symbol,
                                                 "Stock symbol parameter is required"))
             ELSE get_stock_quote_start(cfg, symbol)

get_stock_price_handler_resume(call, reply) == get_stock_quote_resume(call, reply)

search_stocks_handler_start(cfg, parameters) ==
    IF ~IsDict(parameters) THEN Raised(NoAttribute(parameters, "get"))
    ELSE LET keywords == PyGet(parameters, "keywords", PyNone)
         IN  IF ~Truthy(keywords)
             THEN Raised(create_validation_error("keywords", keywords,
                                                 "Search keywords parameter is required"))
             ELSE get_stock_search_start(cfg, keywords)

\* after the await: result["matches"] is read for the log line only
search_stocks_handler_resume(call, reply) == get_stock_search_resume(call, reply)

----------------------------------------------------------------------------
(* The handlers that main.py registers, as the server calls them:          *)
(* `await handler(arguments)`.                                             *)

Handlers ==
    {"get_weather_handler", "get_news_handler", "get_stock_price_handler",
     "search_stocks_handler"}

HandlerStart(handler, cfg, parameters) ==
    CASE handler = "get_weather_handler" -> get_weather_handler_start(cfg, parameters)
      [] handler = "get_news_handler" -> get_news_handler_start(cfg, parameters)
      [] handler = "get_stock_price_handler" ->
             get_stock_price_handler_start(cfg, parameters)
      [] handler = "search_stocks_handler" ->
             search_stocks_handler_start(cfg, parameters)

HandlerResume_shares_call(handler, call, reply, now) ==
    LET peers == {s \in DOMAIN tasks : tasks[s].pc = "awaiting"
                                        /\ tasks[s].called = handler}
        shared == IF peers = {} THEN call
                  ELSE tasks[CHOOSE s \in peers : \A x \in peers : x <= s].call
    IN  CASE handler = "get_weather_handler" -> get_weather_handler_resume(shared, reply)
          [] handler = "get_news_handler" -> get_news_handler_resume(shared, reply, now)
          [] handler = "get_stock_price_handler" ->
                 get_stock_price_handler_resume(shared, reply)
          [] handler = "search_stocks_handler" ->
                 search_stocks_handler_resume(shared, reply)

HandlerResume(handler, call, reply, now) ==
    CASE handler = "get_weather_handler" -> get_weather_handler_resume(call, reply)
      [] handler = "get_news_handler" -> get_news_handler_resume(call, reply, now)
      [] handler = "get_stock_price_handler" ->
             get_stock_price_handler_resume(call, reply)
      [] handler = "search_stocks_handler" ->
             search_stocks_handler_resume(call, reply)

----------------------------------------------------------------------------
(* server.py: the registry *)

ToolSchema(name, description, input_schema) ==
    [name |-> name, description |-> description, input_schema |-> input_schema]

register_tool_op_descriptor_only(server, name, description, input_schema, handler) ==
    LET tool_schema == ToolSchema(name, description, input_schema)
    IN  [tools |-> DictSet(server.tools, name, tool_schema),
         handlers |-> IF DictHas(server.handlers, name) THEN server.handlers
                      ELSE DictSet(server.handlers, name, handler),
         log |-> Append(server.log, [name |-> name, description |-> description,
                                     input_schema |-> input_schema,
                                     handler |-> handler])]

register_tool_op_forgets_handler(server, name, description, input_schema, handler) ==
    LET tool_schema == ToolSchema(name, description, input_schema)
    IN  [tools |-> DictSet(server.tools, name, tool_schema),
         handlers |-> IF name = "get_news" THEN server.handlers
                      ELSE DictSet(server.handlers, name, handler),
         log |-> Append(server.log, [name |-> name, description |-> description,
                                     input_schema |-> input_schema,
                                     handler |-> handler])]

\* MCPServer.register_tool on the server state [tools, handlers, log]
register_tool_op(server, name, description, input_schema, handler) ==
    LET tool_schema == ToolSchema(name, description, input_schema)
    IN  [tools |-> DictSet(server.tools, name, tool_schema),
         handlers |-> DictSet(server.handlers, name, handler),
         log |-> Append(server.log, [name |-> name, description |-> description,
                                     input_schema |-> input_schema,
                                     handler |-> handler])]

\* list(self._tools.values())
ListTools(tools) == PyList(DictValues(tools))

----------------------------------------------------------------------------
(* server.py: POST /tools/{tool_name} *)

ToolResponse(success, data, error) ==
    [success |-> success, data |-> data, error |-> error]

ToolNotFound(name_text) ==
    APIError("Tool '" \o name_text \o "' not found", METHOD_NOT_FOUND, PyNone, PyNone)

\* self._handlers[tool_name]
HandlerOf(handlers, tool_name) ==
    IF DictHas(handlers, tool_name)
    THEN Returned(DictGet(handlers, tool_name))
    ELSE Raised(PyException("KeyError", "'" \o tool_name \o "'"))

invoke_tool_try_unchecked(tools, handlers, cfg, tool_name, request) ==
    LET handler == HandlerOf(handlers, tool_name)
    IN  IF handler.kind = "raise"
        THEN [outcome |-> handler, lookup |-> FALSE, called |-> ""]
        ELSE [outcome |-> HandlerStart(handler.value, cfg, request),
              lookup |-> FALSE, called |-> handler.value]

\* The try block of invoke_tool up to the first suspension of the handler.
\* `lookup` tells whether the registry was consulted, `called` names the
\* handler that was called ("" when none was).
invoke_tool_try(tools, handlers, cfg, tool_name, request) ==
    IF ~DictHas(tools, tool_name)
    THEN [outcome |-> Raised(ToolNotFound(tool_name)), lookup |-> TRUE, called |-> ""]
    ELSE LET handler == HandlerOf(handlers, tool_name)
         IN  IF handler.kind = "raise"
             THEN [outcome |-> handler, lookup |-> TRUE, called |-> ""]
             ELSE [outcome |-> HandlerStart(handler.value, cfg, request),
                   lookup |-> TRUE, called |-> handler.value]

\* `return ToolResponse(success=True, data=result)`: pydantic accepts a
\* dict or None for data and raises ValidationError for anything else.
invoke_tool_return(result) ==
    IF IsDict(result) \/ IsNone(result)
    THEN Returned(ToolResponse(TRUE, result, PyNone))
    ELSE Raised(PyException("ValidationError",
                            "1 validation error for ToolResponse"))

InternalServerError_leaks(e) ==
    APIError("Internal server error: " \o ExcStr(e), INTERNAL_ERROR, PyNone, e)

InternalServerError(e) ==
    APIError("Internal server error", INTERNAL_ERROR, PyNone, e)

invoke_tool_except_data_default(outcome) ==
    IF outcome.kind = "return"
    THEN [outcome |-> outcome, raised |-> PyNone, data_after |-> PyNone]
    ELSE IF IsAPIError(outcome.exc)
    THEN LET converted == to_mcp_error(outcome.exc)
         IN  [outcome |-> Returned(ToolResponse(FALSE, EmptyDict, converted.mcp)),
              raised |-> outcome.exc, data_after |-> converted.self_data]
    ELSE LET error == InternalServerError(outcome.exc)
         IN  [outcome |-> Returned(ToolResponse(FALSE, EmptyDict,
                                                to_mcp_error(error).mcp)),
              raised |-> outcome.exc, data_after |-> PyNone]

invoke_tool_except_api_only(outcome) ==
    IF outcome.kind = "return"
    THEN [outcome |-> outcome, raised |-> PyNone, data_after |-> PyNone]
    ELSE IF IsAPIError(outcome.exc)
    THEN LET converted == to_mcp_error(outcome.exc)
         IN  [outcome |-> Returned(ToolResponse(FALSE, PyNone, converted.mcp)),
              raised |-> outcome.exc, data_after |-> converted.self_data]
    ELSE [outcome |-> outcome, raised |-> outcome.exc, data_after |-> PyNone]

\* The two except clauses of invoke_tool, applied to what the try block did.
\* `raised` is the exception as it reached the clause and `data_after` the
\* data mapping of that exception once the clause has run.
invoke_tool_except(outcome) ==
    IF outcome.kind = "return"
    THEN [outcome |-> outcome, raised |-> PyNone, data_after |-> PyNone]
    ELSE IF IsAPIError(outcome.exc)
    THEN LET converted == to_mcp_error(outcome.exc)
         IN  [outcome |-> Returned(ToolResponse(FALSE, PyNone, converted.mcp)),
              raised |-> outcome.exc, data_after |-> converted.self_data]
    ELSE LET error == InternalServerError(outcome.exc)
         IN  [outcome |-> Returned(ToolResponse(FALSE, PyNone, to_mcp_error(error).mcp)),
              raised |-> outcome.exc, data_after |-> PyNone]

\* invoke_tool from the outcome of the handler to the end of the function
invoke_tool_finish(handler_outcome) ==
    invoke_tool_except(IF handler_outcome.kind = "return"
                       THEN invoke_tool_return(handler_outcome.value)
                       ELSE handler_outcome)

\* What the web framework sends for an endpoint function that returned a
\* value, and for one that let an exception out.
HttpResponse(outcome) ==
    IF outcome.kind = "return"
    THEN [status |-> 200, body |-> outcome.value]
    ELSE [status |-> 500, body |-> PyStr("Internal Server Error")]

----------------------------------------------------------------------------
(* server.py: POST /mcp *)

MCPServerRequest(method, params, id) ==
    [jsonrpc |-> "2.0", method |-> method, params |-> params, id |-> id]

MCPServerResponse(result, error, id) ==
    [jsonrpc |-> "2.0", result |-> result, error |-> error, id |-> id]

UnknownMethod_invalid_request(method) ==
    APIError("Unknown method: " \o method, INVALID_REQUEST, PyNone, PyNone)

\* the else branch of the dispatch on request.method
UnknownMethod(method) ==
    APIError("Unknown method: " \o method, METHOD_NOT_FOUND, PyNone, PyNone)

mcp_endpoint_try_lookup_first(tools, handlers, cfg, request) ==
    IF request.method = "tools/list"
    THEN [outcome |-> Returned(MCPServerResponse(
                          MkDict(<< <<"tools", ListTools(tools)>> >>), PyNone,
                          request.id)),
          lookup |-> FALSE, called |-> ""]
    ELSE IF request.method = "tools/call"
    THEN LET params == IF Truthy(request.params) THEN request.params ELSE EmptyDict
             tool_name == PyGet(params, "name", PyNone)
             arguments == PyGet(params, "arguments", EmptyDict)
         IN  IF IsList(tool_name) \/ IsDict(tool_name)
             THEN [outcome |-> Raised(PyException("TypeError", "unhashable type: '"
                                          \o PyTypeName(tool_name) \o "'")),
                   lookup |-> TRUE, called |-> ""]
             ELSE IF ~(IsStr(tool_name) /\ DictHas(tools, tool_name.str))
             THEN [outcome |-> Raised(ToolNotFound(PyFormat(tool_name))),
                   lookup |-> TRUE, called |-> ""]
             ELSE IF ~Truthy(tool_name)
             THEN [outcome |-> Raised(APIError("Tool name is required", INVALID_PARAMS,
                                               PyNone, PyNone)),
                   lookup |-> TRUE, called |-> ""]
             ELSE LET handler == HandlerOf(handlers, tool_name.str)
                  IN  IF handler.kind = "raise"
                      THEN [outcome |-> handler, lookup |-> TRUE, called |-> ""]
                      ELSE [outcome |-> HandlerStart(handler.value, cfg, arguments),
                            lookup |-> TRUE, called |-> handler.value]
    ELSE [outcome |-> Raised(UnknownMethod(request.method)),
          lookup |-> FALSE, called |-> ""]

mcp_endpoint_try_arguments_default_none(tools, handlers, cfg, request) ==
    IF request.method = "tools/list"
    THEN [outcome |-> Returned(MCPServerResponse(
                          MkDict(<< <<"tools", ListTools(tools)>> >>), PyNone,
                          request.id)),
          lookup |-> FALSE, called |-> ""]
    ELSE IF request.method = "tools/call"
    THEN LET params == IF Truthy(request.params) THEN request.params ELSE EmptyDict
             tool_name == PyGet(params, "name", PyNone)
             arguments == PyGet(params, "arguments", PyNone)
         IN  IF ~Truthy(tool_name)
             THEN [outcome |-> Raised(APIError("Tool name is required", INVALID_PARAMS,
                                               PyNone, PyNone)),
                   lookup |-> FALSE, called |-> ""]
             ELSE IF IsList(tool_name) \/ IsDict(tool_name)
             THEN [outcome |-> Raised(PyException("TypeError", "unhashable type: '"
                                          \o PyTypeName(tool_name) \o "'")),
                   lookup |-> TRUE, called |-> ""]
             ELSE IF ~(IsStr(tool_name) /\ DictHas(tools, tool_name.str))
             THEN [outcome |-> Raised(ToolNotFound(PyFormat(tool_name))),
                   lookup |-> TRUE, called |-> ""]
             ELSE LET handler == HandlerOf(handlers, tool_name.str)
                  IN  IF handler.kind = "raise"
                      THEN [outcome |-> handler, lookup |-> TRUE, called |-> ""]
                      ELSE [outcome |-> HandlerStart(handler.value, cfg, arguments),
                            lookup |-> TRUE, called |-> handler.value]
    ELSE [outcome |-> Raised(UnknownMethod(request.method)),
          lookup |-> FALSE, called |-> ""]

\* The try block of mcp_endpoint up to the first suspension of the handler
mcp_endpoint_try(tools, handlers, cfg, request) ==
    IF request.method = "tools/list"
    THEN [outcome |-> Returned(MCPServerResponse(
                          MkDict(<< <<"tools", ListTools(tools)>> >>), PyNone,
                          request.id)),
          lookup |-> FALSE, called |-> ""]
    ELSE IF request.method = "tools/call"
    THEN LET params == IF Truthy(request.params) THEN request.params ELSE EmptyDict
             tool_name == PyGet(params, "name", PyNone)
             arguments == PyGet(params, "arguments", EmptyDict)
         IN  IF ~Truthy(tool_name)
             THEN [outcome |-> Raised(APIError("Tool name is required", INVALID_PARAMS,
                                               PyNone, PyNone)),
                   lookup |-> FALSE, called |-> ""]
             ELSE IF IsList(tool_name) \/ IsDict(tool_name)
             THEN [outcome |-> Raised(PyException("TypeError", "unhashable type: '"
                                          \o PyTypeName(tool_name) \o "'")),
                   lookup |-> TRUE, called |-> ""]
             ELSE IF ~(IsStr(tool_name) /\ DictHas(tools, tool_name.str))
             THEN [outcome |-> Raised(ToolNotFound(PyFormat(tool_name))),
                   lookup |-> TRUE, called |-> ""]
             ELSE LET handler == HandlerOf(handlers, tool_name.str)
                  IN  IF handler.kind = "raise"
                      THEN [outcome |-> handler, lookup |-> TRUE, called |-> ""]
                      ELSE [outcome |-> HandlerStart(handler.value, cfg, arguments),
                            lookup |-> TRUE, called |-> handler.value]
    ELSE [outcome |-> Raised(UnknownMethod(request.method)),
          lookup |-> FALSE, called |-> ""]

\* `return MCPServerResponse(result={"content": [...]}, id=request.id)`
mcp_endpoint_return(request, result) ==
    Returned(MCPServerResponse(
        MkDict(<< <<"content", PyList(<< MkDict(<< <<"type", PyStr("text")>>,
                                                  <<"text", PyRepr(result)>> >>) >>)>> >>),
        PyNone, request.id))

mcp_endpoint_except_keeps_result(request, outcome) ==
    IF outcome.kind = "return"
    THEN [outcome |-> outcome, raised |-> PyNone, data_after |-> PyNone]
    ELSE IF IsAPIError(outcome.exc)
    THEN LET converted == to_mcp_error(outcome.exc)
         IN  [outcome |-> Returned(MCPServerResponse(EmptyDict, converted.mcp,
                                                     request.id)),
              raised |-> outcome.exc, data_after |-> converted.self_data]
    ELSE LET error == InternalServerError(outcome.exc)
         IN  [outcome |-> Returned(MCPServerResponse(EmptyDict, to_mcp_error(error).mcp,
                                                     request.id)),
              raised |-> outcome.exc, data_after |-> PyNone]

mcp_endpoint_except_drops_id(request, outcome) ==
    IF outcome.kind = "return"
    THEN [outcome |-> outcome, raised |-> PyNone, data_after |-> PyNone]
    ELSE IF IsAPIError(outcome.exc)
    THEN LET converted == to_mcp_error(outcome.exc)
         IN  [outcome |-> Returned(MCPServerResponse(PyNone, converted.mcp, request.id)),
              raised |-> outcome.exc, data_after |-> converted.self_data]
    ELSE LET error == InternalServerError(outcome.exc)
         IN  [outcome |-> Returned(MCPServerResponse(PyNone, to_mcp_error(error).mcp,
                                                     PyNone)),
              raised |-> outcome.exc, data_after |-> PyNone]

mcp_endpoint_except_hides_data(request, outcome) ==
    IF outcome.kind = "return"
    THEN [outcome |-> outcome, raised |-> PyNone, data_after |-> PyNone]
    ELSE IF IsAPIError(outcome.exc)
    THEN LET converted == to_mcp_error(outcome.exc)
         IN  [outcome |-> Returned(MCPServerResponse(
                              PyNone, [converted.mcp EXCEPT !.data = PyNone],
                              request.id)),
              raised |-> outcome.exc, data_after |-> converted.self_data]
    ELSE LET error == InternalServerError(outcome.exc)
         IN  [outcome |-> Returned(MCPServerResponse(PyNone, to_mcp_error(error).mcp,
                                                     request.id)),
              raised |-> outcome.exc, data_after |-> PyNone]

\* The two except clauses of mcp_endpoint
mcp_endpoint_except(request, outcome) ==
    IF outcome.kind = "return"
    THEN [outcome |-> outcome, raised |-> PyNone, data_after |-> PyNone]
    ELSE IF IsAPIError(outcome.exc)
    THEN LET converted == to_mcp_error(outcome.exc)
         IN  [outcome |-> Returned(MCPServerResponse(PyNone, converted.mcp, request.id)),
              raised |-> outcome.exc, data_after |-> converted.self_data]
    ELSE LET error == InternalServerError(outcome.exc)
         IN  [outcome |-> Returned(MCPServerResponse(PyNone, to_mcp_error(error).mcp,
                                                     request.id)),
              raised |-> outcome.exc, data_after |-> PyNone]

\* mcp_endpoint from the outcome of the handler to the end of the function
mcp_endpoint_finish(request, handler_outcome) ==
    mcp_endpoint_except(request,
                        IF handler_outcome.kind = "return"
                        THEN mcp_endpoint_return(request, handler_outcome.value)
                        ELSE handler_outcome)

----------------------------------------------------------------------------
(* The inputs the model explores *)

ApiKeys == {PyNone, PyStr("key")}

AllSettings ==
    [openweather_api_key : ApiKeys, news_api_key : ApiKeys,
     alpha_vantage_api_key : ApiKeys]

ToolNames == {"get_weather", "get_news", "get_stock_price", "search_stocks"}

\* tool names in request paths
PathNames == ToolNames \cup {"unknown_tool"}

\* The argument mappings sent to each tool: valid ones, and ones that miss
\* or spoil each argument the tool validates
WeatherArgs ==
    { EmptyDict,
      MkDict(<< <<"city", PyStr("Paris")>> >>),
      MkDict(<< <<"city", PyStr("")>> >>),
      MkDict(<< <<"city", PyStr(" ")>> >>),
      MkDict(<< <<"city", PyStr("Paris")>>, <<"units", PyStr("bogus")>> >>),
      MkDict(<< <<"city", PyInt(5)>> >>) }

NewsArgs ==
    { EmptyDict,
      MkDict(<< <<"query", PyStr("AI")>> >>),
      MkDict(<< <<"query", PyStr("AI")>>, <<"category", PyStr("business")>>,
                <<"country", PyStr("gb")>> >>),
      MkDict(<< <<"category", PyStr("business")>> >>),
      MkDict(<< <<"country", PyStr("gb")>> >>),
      MkDict(<< <<"category", PyStr("business")>>, <<"country", PyStr("gb")>> >>),
      MkDict(<< <<"category", PyStr("bogus")>> >>),
      MkDict(<< <<"page_size", PyInt(0)>> >>),
      MkDict(<< <<"page_size", PyInt(101)>> >>),
      MkDict(<< <<"page_size", PyStr("ten")>> >>) }

StockPriceArgs ==
    { EmptyDict,
      MkDict(<< <<"symbol", PyStr("aapl")>> >>),
      MkDict(<< <<"symbol", PyStr(" ")>> >>) }

StockSearchArgs ==
    { EmptyDict,
      MkDict(<< <<"keywords", PyStr("apple")>> >>),
      MkDict(<< <<"keywords", PyStr(" ")>> >>) }

ArgsOf(tool) ==
    CASE tool = "get_weather" -> WeatherArgs
      [] tool = "get_news" -> NewsArgs
      [] tool = "get_stock_price" -> StockPriceArgs
      [] tool = "search_stocks" -> StockSearchArgs
      [] OTHER -> {EmptyDict}

\* request bodies / argument mappings
ArgDicts == UNION {ArgsOf(n) : n \in ToolNames}

RequestIds == {PyNone, PyStr("req-1")}

\* the values of params["name"]
NameValues ==
    {PyStr(n) : n \in PathNames} \cup {PyStr(""), PyList(<<PyStr("get_weather")>>)}

\* the values of params["arguments"]; the handlers get whatever JSON value
\* the client put there
ArgumentValues == ArgDicts \cup {PyNone}

\* params of a tools/call request: no params, no name, a name alone, a
\* name with arguments
RpcParams ==
    {PyNone, EmptyDict}
    \cup {MkDict(<< <<"name", n>> >>) : n \in NameValues}
    \cup {MkDict(<< <<"arguments", EmptyDict>> >>)}
    \cup {MkDict(<< <<"name", n>>, <<"arguments", EmptyDict>> >>) : n \in NameValues}
    \cup UNION {{MkDict(<< <<"name", PyStr(n)>>, <<"arguments", a>> >>) :
                      a \in ArgsOf(n) \cup {PyNone}} : n \in ToolNames}

RpcListParams == {PyNone, MkDict(<< <<"name", PyStr("get_news")>> >>)}

RpcListRequests ==
    {MCPServerRequest("tools/list", p, i) : p \in RpcListParams, i \in RequestIds}

RpcRequests ==
    RpcListRequests
    \cup {MCPServerRequest("tools/call", p, i) : p \in RpcParams, i \in RequestIds}
    \cup {MCPServerRequest("resources/list", p, i) :
              p \in RpcListParams, i \in RequestIds}

\* POST /tools/{tool_name} requests
InvokeRequests ==
    UNION {{<<n, a>> : a \in ArgsOf(n)} : n \in PathNames}

\* Upstream bodies
WeatherBody ==
    MkDict(<<
        <<"name", PyStr("Paris")>>,
        <<"sys", MkDict(<< <<"country", PyStr("FR")>> >>)>>,
        <<"coord", MkDict(<< <<"lat", PyFloat("48.85")>>, <<"lon", PyFloat("2.35")>> >>)>>,
        <<"weather", PyList(<< MkDict(<< <<"main", PyStr("Clouds")>>,
                                        <<"description", PyStr("broken clouds")>>,
                                        <<"icon", PyStr("04d")>> >>) >>)>>,
        <<"main", MkDict(<< <<"temp", PyFloat("21.5")>>, <<"feels_like", PyFloat("21.0")>>,
                            <<"temp_min", PyFloat("19.0")>>, <<"temp_max", PyFloat("23.0")>>,
                            <<"humidity", PyInt(60)>>, <<"pressure", PyInt(1015)>> >>)>>,
        <<"visibility", PyInt(10000)>>,
        <<"wind", MkDict(<< <<"speed", PyFloat("3.6")>>, <<"deg", PyInt(250)>> >>)>>,
        <<"clouds", MkDict(<< <<"all", PyInt(75)>> >>)>>,
        <<"dt", PyInt(1714557600)>>,
        <<"timezone", PyInt(7200)>> >>)

WeatherBodyIncomplete == MkDict(<< <<"name", PyStr("Paris")>> >>)

NewsBody ==
    MkDict(<<
        <<"status", PyStr("ok")>>,
        <<"totalResults", PyInt(1)>>,
        <<"articles", PyList(<< MkDict(<<
            <<"title", PyStr("AI news")>>,
            <<"url", PyStr("https://example.com/a")>>,
            <<"source", MkDict(<< <<"name", PyStr("Example")>> >>)>>,
            <<"publishedAt", PyStr("2024-05-01T10:00:00Z")>> >>) >>)>> >>)

NewsBodyNullSource ==
    MkDict(<< <<"articles", PyList(<< MkDict(<< <<"source", PyNone>> >>) >>)>> >>)

QuoteBody ==
    MkDict(<< <<"Global Quote", MkDict(<<
        <<"01. symbol", PyStr("AAPL")>>,
        <<"02. open", PyStr("149.00")>>,
        <<"05. price", PyStr("150.25")>>,
        <<"06. volume", PyStr("1000")>>,
        <<"09. change", PyStr("1.25")>>,
        <<"10. change percent", PyStr("0.84%")>> >>)>> >>)

QuoteBodyBadPrice ==
    MkDict(<< <<"Global Quote", MkDict(<< <<"05. price", PyStr("n/a")>> >>)>> >>)

SearchBody ==
    MkDict(<< <<"bestMatches", PyList(<< MkDict(<<
        <<"1. symbol", PyStr("AAPL")>>,
        <<"2. name", PyStr("Apple Inc")>>,
        <<"9. matchScore", PyStr("1.25")>> >>) >>)>> >>)

ErrorMessageBody == MkDict(<< <<"Error Message", PyStr("Invalid API call.")>> >>)
NoteBody == MkDict(<< <<"Note", PyStr("Thank you for using Alpha Vantage!")>> >>)
ErrorMessageAndNoteBody ==
    MkDict(<< <<"Error Message", PyStr("Invalid API call.")>>,
              <<"Note", PyStr("Thank you for using Alpha Vantage!")>> >>)

JsonType == "application/json"

\* What the upstream may answer to a call
Bodies(call) ==
    IF call.api = "OpenWeatherMap" THEN {WeatherBody, WeatherBodyIncomplete}
    ELSE IF call.api = "News API" THEN {NewsBody, NewsBodyNullSource}
    ELSE IF call.params.dict["function"] = PyStr("GLOBAL_QUOTE")
    THEN {QuoteBody, QuoteBodyBadPrice, EmptyDict, ErrorMessageBody, NoteBody,
          ErrorMessageAndNoteBody}
    ELSE {SearchBody, ErrorMessageBody, NoteBody, ErrorMessageAndNoteBody}

ErrorStatuses == {401, 404, 429, 500}

Replies(call) ==
    {ReplyFailed(PyException("ClientConnectorError", "Cannot connect to host")),
     ReplyFailed(PyException("TimeoutError", ""))}
    \cup {ReplyHTTP(200, b, "", JsonType) : b \in Bodies(call)}
    \cup {ReplyHTTP(200, NotJSON, "<html>", "text/html")}
    \cup {ReplyHTTP(st, EmptyDict, "{}", JsonType) : st \in ErrorStatuses}
    \cup {ReplyHTTP(500, NotJSON, "Bad Gateway", "text/plain")}

\* the values datetime.utcnow() formats to
Clock == {"2024-05-01 12:00:00 UTC", "2024-05-01 12:00:01 UTC"}

----------------------------------------------------------------------------
(* State machine *)

IdleTask ==
    [pc |-> "idle", route |-> "", tool_name |-> "", request |-> PyNone,
     lookup |-> FALSE, called |-> "", call |-> PyNone, upstream |-> 0,
     reply |-> PyNone, raised |-> PyNone, data_after |-> PyNone,
     response |-> PyNone, session |-> 0, seen |-> 0]

\* main(): nothing is registered and nothing is served before create_app
Init ==
    /\ settings \in AllSettings
    /\ started = FALSE
    /\ _tools = <<>>
    /\ _handlers = <<>>
    /\ tasks = [s \in Slots |-> IdleTask]
    /\ regLog = <<>>
    /\ sessions = {}

\* MCPServer(settings) constructed directly; its app serves at once
InitRegistry ==
    /\ settings = [openweather_api_key |-> PyStr("key"), news_api_key |-> PyStr("key"),
                   alpha_vantage_api_key |-> PyStr("key")]
    /\ started = TRUE
    /\ _tools = <<>>
    /\ _handlers = <<>>
    /\ tasks = [s \in Slots |-> IdleTask]
    /\ regLog = <<>>
    /\ sessions = {}

Server == [tools |-> _tools, handlers |-> _handlers, log |-> regLog]

validate_api_keys_stock_from_news(cfg) ==
    [weather |-> Truthy(cfg.openweather_api_key),
     news |-> Truthy(cfg.news_api_key),
     stock |-> Truthy(cfg.news_api_key)]

validate_api_keys(cfg) ==
    [weather |-> Truthy(cfg.openweather_api_key),
     news |-> Truthy(cfg.news_api_key),
     stock |-> Truthy(cfg.alpha_vantage_api_key)]

\* create_app on a fresh server
create_app_op(server, cfg) ==
    LET available_apis == validate_api_keys(cfg)
        s1 == IF available_apis.weather
              THEN register_tool_op(server, "get_weather",
                       "Get current weather information for a specified city",
                       "WEATHER_TOOL_SCHEMA", "get_weather_handler")
              ELSE server
        s2 == IF available_apis.news
              THEN register_tool_op(s1, "get_news",
                       "Get latest news headlines by topic, category, or country",
                       "NEWS_TOOL_SCHEMA", "get_news_handler")
              ELSE s1
        s3 == IF available_apis.stock
              THEN register_tool_op(
                       register_tool_op(s2, "get_stock_price",
                           "Get current stock price and trading information for a given symbol",
                           "STOCK_PRICE_TOOL_SCHEMA", "get_stock_price_handler"),
                       "search_stocks",
                       "Search for stock symbols by company name or keywords",
                       "STOCK_SEARCH_TOOL_SCHEMA", "search_stocks_handler")
              ELSE s2
    IN  s3

create_app ==
    /\ ~started
    /\ LET server == create_app_op(Server, settings)
       IN  /\ _tools' = server.tools
           /\ _handlers' = server.handlers
           /\ regLog' = server.log
    /\ started' = TRUE
    /\ UNCHANGED <<settings, tasks, sessions>>

\* the register_tool arguments SpecRegistry explores
RegNames == {"get_weather", "get_news"}
RegDescriptions == {"Get current weather information for a specified city",
                    "Get latest news headlines by topic, category, or country"}
RegSchemas == {"WEATHER_TOOL_SCHEMA", "NEWS_TOOL_SCHEMA"}
RegHandlers == {"get_weather_handler", "get_news_handler"}

register_tool(name, description, input_schema, handler) ==
    /\ Len(regLog) < MaxRegs
    /\ LET server == register_tool_op(Server, name, description, input_schema, handler)
       IN  /\ _tools' = server.tools
           /\ _handlers' = server.handlers
           /\ regLog' = server.log
    /\ UNCHANGED <<settings, started, tasks, sessions>>

Done(task, result) ==
    [task EXCEPT !.pc = "done", !.raised = result.raised,
                 !.data_after = result.data_after,
                 !.response = HttpResponse(result.outcome)]

\* GET /tools
list_tools(s) ==
    /\ started
    /\ tasks[s].pc = "idle"
    /\ tasks' = [tasks EXCEPT ![s] =
                   [IdleTask EXCEPT !.pc = "done", !.route = "GET /tools",
                                    !.seen = Len(regLog),
                                    !.response = HttpResponse(Returned(ListTools(_tools)))]]
    /\ UNCHANGED <<settings, started, _tools, _handlers, regLog, sessions>>

\* the session ids that name a session of some task, open or closed
InUse == {tasks[s].session : s \in DOMAIN tasks}

\* A request task from its start to its first suspension or to its end
Begin(route, tool_name, request, try, finished, excepted) ==
    LET task == [IdleTask EXCEPT !.route = route, !.tool_name = tool_name,
                                 !.request = request, !.lookup = try.lookup,
                                 !.called = try.called, !.seen = Len(regLog)]
    IN  IF try.called = "" THEN Done(task, excepted)
        ELSE IF try.outcome.kind = "await"
        THEN [task EXCEPT !.pc = "awaiting", !.call = try.outcome.call,
                          !.upstream = 1,
                          !.session = ClientSession_aenter(sessions, InUse).session]
        ELSE Done(task, finished)

\* the sessions open once the task has run to its first suspension
SessionsAfter(task) ==
    IF task.pc = "awaiting" THEN ClientSession_aenter(sessions, InUse).open
    ELSE sessions

invoke_tool_pops_handler(s, tool_name, request) ==
    /\ started
    /\ tasks[s].pc = "idle"
    /\ LET try == invoke_tool_try(_tools, _handlers, settings, tool_name, request)
       IN  tasks' = [tasks EXCEPT ![s] =
                       Begin("POST /tools/{tool_name}", tool_name, request, try,
                             invoke_tool_finish(try.outcome),
                             invoke_tool_except(try.outcome))]
    /\ sessions' = SessionsAfter(tasks'[s])
    /\ _handlers' = SelectSeq(_handlers, LAMBDA e : e.key # tool_name)
    /\ UNCHANGED <<settings, started, _tools, regLog>>

\* POST /tools/{tool_name}: neither the endpoint function nor a handler
\* assigns to self._tools or self._handlers
invoke_tool(s, tool_name, request) ==
    /\ started
    /\ tasks[s].pc = "idle"
    /\ LET try == invoke_tool_try(_tools, _handlers, settings, tool_name, request)
       IN  tasks' = [tasks EXCEPT ![s] =
                       Begin("POST /tools/{tool_name}", tool_name, request, try,
                             invoke_tool_finish(try.outcome),
                             invoke_tool_except(try.outcome))]
    /\ sessions' = SessionsAfter(tasks'[s])
    /\ UNCHANGED <<settings, started, _tools, _handlers, regLog>>

\* POST /mcp
mcp_endpoint(s, request) ==
    /\ started
    /\ tasks[s].pc = "idle"
    /\ LET try == mcp_endpoint_try(_tools, _handlers, settings, request)
       IN  tasks' = [tasks EXCEPT ![s] =
                       Begin("POST /mcp", "", request, try,
                             mcp_endpoint_finish(request, try.outcome),
                             mcp_endpoint_except(request, try.outcome))]
    /\ sessions' = SessionsAfter(tasks'[s])
    /\ UNCHANGED <<settings, started, _tools, _handlers, regLog>>

\* The upstream answers: the handler resumes, and the endpoint function ends
\* unless the handler issues another upstream request.  `reply` keeps the
\* last answer and `upstream` counts the requests of the invocation.
upstream_reply(s, reply, now) ==
    /\ tasks[s].pc = "awaiting"
    /\ LET task == [tasks[s] EXCEPT !.reply = reply]
           handler_outcome == HandlerResume(task.called, task.call, reply, now)
           result == IF task.route = "POST /mcp"
                     THEN mcp_endpoint_finish(task.request, handler_outcome)
                     ELSE invoke_tool_finish(handler_outcome)
       IN  /\ tasks' = [tasks EXCEPT ![s] =
                       IF handler_outcome.kind = "await"
                       THEN [task EXCEPT !.call = handler_outcome.call,
                                         !.upstream = task.upstream + 1]
                       ELSE Done(task, result)]
           /\ sessions' = IF handler_outcome.kind = "await" THEN sessions
                           ELSE ClientSession_aexit(sessions, task.session,
                                                    handler_outcome)
    /\ UNCHANGED <<settings, started, _tools, _handlers, regLog>>

\* The response is sent and the task ends
respond(s) ==
    /\ tasks[s].pc = "done"
    /\ tasks' = [tasks EXCEPT ![s] = IdleTask]
    /\ UNCHANGED <<settings, started, _tools, _handlers, regLog, sessions>>

Next ==
    \/ create_app
    \/ \E s \in Slots : list_tools(s)
    \/ \E s \in Slots, r \in InvokeRequests : invoke_tool(s, r[1], r[2])
    \/ \E s \in Slots, request \in RpcRequests : mcp_endpoint(s, request)
    \/ \E s \in Slots :
           /\ tasks[s].pc = "awaiting"
           /\ \E reply \in Replies(tasks[s].call), now \in Clock :
                  upstream_reply(s, reply, now)
    \/ \E s \in Slots : respond(s)

Spec == Init /\ [][Next]_vars

NextRegistry ==
    \/ \E name \in RegNames, description \in RegDescriptions,
          input_schema \in RegSchemas, handler \in RegHandlers :
           register_tool(name, description, input_schema, handler)
    \/ \E s \in Slots : list_tools(s)
    \/ \E s \in Slots, request \in RpcListRequests : mcp_endpoint(s, request)
    \/ \E s \in Slots : respond(s)

SpecRegistry == InitRegistry /\ [][NextRegistry]_vars

\* Concurrent requests: the server of create_app with every key configured,
\* several request tasks in flight, and the same requests sent through
\* both adapters.
ConcurrentSlots == 1..MaxConcurrent

ConcurrentArgs ==
    [get_weather |-> {MkDict(<< <<"city", PyStr("Paris")>>,
                                <<"units", PyStr("metric")>> >>),
                      MkDict(<< <<"city", PyStr("Paris")>>,
                                <<"units", PyStr("imperial")>> >>),
                      EmptyDict},
     get_news |-> {EmptyDict, MkDict(<< <<"page_size", PyStr("ten")>> >>)},
     unknown_tool |-> {EmptyDict}]

ConcurrentInvokeRequests ==
    UNION {{<<n, a>> : a \in ConcurrentArgs[n]} : n \in DOMAIN ConcurrentArgs}

ConcurrentRpcRequests ==
    UNION {{MCPServerRequest("tools/call",
                             MkDict(<< <<"name", PyStr(n)>>, <<"arguments", a>> >>),
                             PyStr("req-1")) : a \in ConcurrentArgs[n]} :
           n \in DOMAIN ConcurrentArgs}

ConcurrentReplies(call) ==
    {ReplyFailed(PyException("ClientConnectorError", "Cannot connect to host")),
     ReplyHTTP(500, EmptyDict, "{}", JsonType)}
    \cup {ReplyHTTP(200, b, "", JsonType) : b \in Bodies(call)}

InitConcurrent ==
    /\ settings = [openweather_api_key |-> PyStr("key"), news_api_key |-> PyStr("key"),
                   alpha_vantage_api_key |-> PyStr("key")]
    /\ started = FALSE
    /\ _tools = <<>>
    /\ _handlers = <<>>
    /\ tasks = [s \in ConcurrentSlots |-> IdleTask]
    /\ regLog = <<>>
    /\ sessions = {}

NextConcurrent ==
    \/ create_app
    \/ \E s \in ConcurrentSlots, r \in ConcurrentInvokeRequests :
           invoke_tool(s, r[1], r[2])
    \/ \E s \in ConcurrentSlots, request \in ConcurrentRpcRequests :
           mcp_endpoint(s, request)
    \/ \E s \in ConcurrentSlots :
           /\ tasks[s].pc = "awaiting"
           /\ \E reply \in ConcurrentReplies(tasks[s].call), now \in Clock :
                  upstream_reply(s, reply, now)
    \/ \E s \in ConcurrentSlots : respond(s)

SpecConcurrent == InitConcurrent /\ [][NextConcurrent]_vars

\* The handlers on their own: an MCPServer on which every handler is
\* registered whatever keys are configured, as register_tool allows, so that
\* each handler is called with and without its credential.
RegisterAllHandlers(server) ==
    register_tool_op(
        register_tool_op(
            register_tool_op(
                register_tool_op(server, "get_weather",
                    "Get current weather information for a specified city",
                    "WEATHER_TOOL_SCHEMA", "get_weather_handler"),
                "get_news",
                "Get latest news headlines by topic, category, or country",
                "NEWS_TOOL_SCHEMA", "get_news_handler"),
            "get_stock_price",
            "Get current stock price and trading information for a given symbol",
            "STOCK_PRICE_TOOL_SCHEMA", "get_stock_price_handler"),
        "search_stocks",
        "Search for stock symbols by company name or keywords",
        "STOCK_SEARCH_TOOL_SCHEMA", "search_stocks_handler")

InitHandlers ==
    /\ settings \in AllSettings
    /\ started = TRUE
    /\ LET server == RegisterAllHandlers([tools |-> <<>>, handlers |-> <<>>,
                                          log |-> <<>>])
       IN  /\ _tools = server.tools
           /\ _handlers = server.handlers
           /\ regLog = server.log
    /\ tasks = [s \in Slots |-> IdleTask]
    /\ sessions = {}

NextHandlers ==
    \/ \E s \in Slots, r \in InvokeRequests : invoke_tool(s, r[1], r[2])
    \/ \E s \in Slots, request \in ConcurrentRpcRequests : mcp_endpoint(s, request)
    \/ \E s \in Slots :
           /\ tasks[s].pc = "awaiting"
           /\ \E reply \in ConcurrentReplies(tasks[s].call), now \in Clock :
                  upstream_reply(s, reply, now)
    \/ \E s \in Slots : respond(s)

SpecHandlers == InitHandlers /\ [][NextHandlers]_vars

----------------------------------------------------------------------------
(* Properties.  They are stated over the history (regLog and what each     *)
(* task recorded) and over the responses.                                  *)

\* the names passed to register_tool so far
RegisteredNames == {regLog[i].name : i \in 1..Len(regLog)}

IsInvoke(t) == t.route = "POST /tools/{tool_name}"
IsRpc(t) == t.route = "POST /mcp"
IsRpcCall(t) == IsRpc(t) /\ t.request.method = "tools/call"

\* params["name"] of a tools/call request, None when there is none
RpcName(t) ==
    IF IsDict(t.request.params) /\ "name" \in DOMAIN t.request.params.dict
    THEN t.request.params.dict["name"]
    ELSE PyNone

\* the task asks for a tool by a name that was never registered
NamesUnregisteredTool(t) ==
    \/ IsInvoke(t) /\ t.tool_name \notin RegisteredNames
    \/ /\ IsRpcCall(t)
       /\ IsStr(RpcName(t))
       /\ RpcName(t).str # ""
       /\ RpcName(t).str \notin RegisteredNames

\* the error of a response body, None when the response carries none
ErrorOf(t) ==
    IF t.response.status = 200 /\ "error" \in DOMAIN t.response.body
    THEN t.response.body.error
    ELSE PyNone

ErrorCodeOf(t) == IF IsNone(ErrorOf(t)) THEN 0 ELSE ErrorOf(t).code

\* C1: a request for a tool name that is not in the registry, through
\* POST /tools/{name} or through the RPC method tools/call, never calls a
\* handler, never suspends, and is answered with MethodNotFound (-32601).
C1_UnregisteredIsMethodNotFound ==
    \A s \in Slots :
        LET t == tasks[s] IN
        (t.pc # "idle" /\ NamesUnregisteredTool(t)) =>
            /\ t.called = ""
            /\ t.upstream = 0
            /\ t.pc = "done"
            /\ ErrorCodeOf(t) = METHOD_NOT_FOUND

\* a tool of main.py whose key is not configured is asked for over RPC
C1_Witness ==
    \E s \in Slots :
        /\ tasks[s].pc = "done"
        /\ IsRpcCall(tasks[s])
        /\ NamesUnregisteredTool(tasks[s])
        /\ RpcName(tasks[s]) = PyStr("get_weather")
        /\ RegisteredNames # {}
        /\ ErrorCodeOf(tasks[s]) = METHOD_NOT_FOUND

\* C2: every ToolResponse of POST /tools/{name} carries exactly one of
\* data and error: success with data and no error, or failure with an
\* error and no data.
C2_ExactlyOneOfDataAndError ==
    \A s \in Slots :
        LET t == tasks[s] IN
        (t.pc = "done" /\ IsInvoke(t)) =>
            /\ t.response.status = 200
            /\ DOMAIN t.response.body = {"success", "data", "error"}
            /\ \/ /\ t.response.body.success
                  /\ ~IsNone(t.response.body.data)
                  /\ IsNone(t.response.body.error)
               \/ /\ ~t.response.body.success
                  /\ IsNone(t.response.body.data)
                  /\ ~IsNone(t.response.body.error)

\* a handler returned its result after the upstream call
C2_Witness ==
    \E s \in Slots :
        /\ tasks[s].pc = "done"
        /\ IsInvoke(tasks[s])
        /\ tasks[s].upstream = 1
        /\ tasks[s].response.body.success
        /\ IsDict(tasks[s].response.body.data)

\* C3: every response of POST /mcp carries a result or an error and never
\* both, for tools/list, tools/call and unknown methods alike.
C3_ResultOrErrorNeverBoth ==
    \A s \in Slots :
        LET t == tasks[s] IN
        (t.pc = "done" /\ IsRpc(t)) =>
            /\ t.response.status = 200
            /\ DOMAIN t.response.body = {"jsonrpc", "result", "error", "id"}
            /\ IsNone(t.response.body.result) # IsNone(t.response.body.error)

\* a tools/call whose handler failed after the upstream call
C3_Witness ==
    \E s \in Slots :
        /\ tasks[s].pc = "done"
        /\ IsRpcCall(tasks[s])
        /\ tasks[s].upstream = 1
        /\ IsNone(tasks[s].response.body.result)
        /\ ~IsNone(tasks[s].response.body.error)

\* C4: every response of POST /mcp carries the id of its request, on the
\* success path and on every error path.
C4_ResponseEchoesRequestId ==
    \A s \in Slots :
        LET t == tasks[s] IN
        (t.pc = "done" /\ IsRpc(t)) =>
            /\ t.response.status = 200
            /\ t.response.body.id = t.request.id

\* an unexpected exception, answered with the id the request carried
C4_Witness ==
    \E s \in Slots :
        /\ tasks[s].pc = "done"
        /\ IsRpc(tasks[s])
        /\ tasks[s].request.id = PyStr("req-1")
        /\ ~IsNone(tasks[s].raised)
        /\ ~IsAPIError(tasks[s].raised)
        /\ tasks[s].response.body.id = PyStr("req-1")

\* C5: no exception crosses POST /tools/{name}: whatever was raised while
\* the request was handled, the answer is a ToolResponse with HTTP status
\* 200, and success is false exactly when something was raised.
C5_NoExceptionCrossesInvoke ==
    \A s \in Slots :
        LET t == tasks[s] IN
        (t.pc = "done" /\ IsInvoke(t)) =>
            /\ t.response.status = 200
            /\ "success" \in DOMAIN t.response.body
            /\ t.response.body.success = IsNone(t.raised)

\* a handler raised an exception that is no APIError
C5_Witness ==
    \E s \in Slots :
        /\ tasks[s].pc = "done"
        /\ IsInvoke(tasks[s])
        /\ tasks[s].called # ""
        /\ ~IsNone(tasks[s].raised)
        /\ ~IsAPIError(tasks[s].raised)
        /\ tasks[s].response.status = 200
        /\ ~tasks[s].response.body.success

\* C6: when what a handler raised is not an APIError, both adapters answer
\* with InternalError (-32603), the fixed message "Internal server error"
\* and a data mapping whose only entry is original_error, the description
\* of the failure.
C6_UnexpectedFailureIsInternalError ==
    \A s \in Slots :
        LET t == tasks[s] IN
        (t.pc = "done" /\ ~IsNone(t.raised) /\ ~IsAPIError(t.raised)) =>
            /\ ~IsNone(ErrorOf(t))
            /\ ErrorOf(t).code = INTERNAL_ERROR
            /\ ErrorOf(t).message = "Internal server error"
            /\ ErrorOf(t).data =
                   MkDict(<< <<"original_error", PyStr(t.raised.text)>> >>)
            /\ IsInvoke(t) => IsNone(t.response.body.data)
            /\ IsRpc(t) => IsNone(t.response.body.result)

\* get_news_handler compared a str page_size with an int
C6_Witness ==
    \E s \in Slots :
        /\ tasks[s].pc = "done"
        /\ IsRpcCall(tasks[s])
        /\ tasks[s].called = "get_news_handler"
        /\ ~IsNone(tasks[s].raised)
        /\ ~IsAPIError(tasks[s].raised)
        /\ tasks[s].raised.type = "TypeError"
        /\ ErrorCodeOf(tasks[s]) = INTERNAL_ERROR

\* C7: when a handler raises an APIError, the error of the response has the
\* code, message and data the APIError was constructed with, and the
\* APIError's data mapping is the same after the adapter has handled it.
C7_TaxonomyErrorUnchanged ==
    \A s \in Slots :
        LET t == tasks[s] IN
        (t.pc = "done" /\ t.called # "" /\ ~IsNone(t.raised) /\ IsAPIError(t.raised)) =>
            /\ ~IsNone(ErrorOf(t))
            /\ ErrorOf(t).code = t.raised.code
            /\ ErrorOf(t).message = t.raised.message
            /\ ErrorOf(t).data = t.raised.data
            /\ t.data_after = t.raised.data

\* the first register_tool call that passed this name
FirstCall(log, name) ==
    log[CHOOSE i \in 1..Len(log) :
            /\ log[i].name = name
            /\ \A j \in 1..(i - 1) : log[j].name # name]

\* the last register_tool call that passed this name
LastCall(log, name) ==
    log[CHOOSE i \in 1..Len(log) :
            /\ log[i].name = name
            /\ \A j \in (i + 1)..Len(log) : log[j].name # name]

DescriptorOf(call) ==
    [name |-> call.name, description |-> call.description,
     input_schema |-> call.input_schema]

\* C8: registering a name that is already registered is rejected: the
\* registry keeps, for every name, the descriptor and the handler of the
\* first register_tool call that passed the name.
C8_DuplicateRegistrationRejected ==
    \A name \in RegisteredNames :
        /\ DictHas(_tools, name)
        /\ DictGet(_tools, name) = DescriptorOf(FirstCall(regLog, name))
        /\ DictGet(_handlers, name) = FirstCall(regLog, name).handler

\* the names of the calls in the order of their first registration
RECURSIVE FirstNames(_, _)
FirstNames(log, seen) ==
    IF log = <<>> THEN <<>>
    ELSE IF Head(log).name \in seen THEN FirstNames(Tail(log), seen)
    ELSE <<Head(log).name>> \o FirstNames(Tail(log), seen \cup {Head(log).name})

\* what a listing shows after the calls of log: one descriptor per name, in
\* the order the names were first registered, each as last registered
ExpectedListing(log) ==
    LET names == FirstNames(log, {})
    IN  [i \in 1..Len(names) |-> DescriptorOf(LastCall(log, names[i]))]

SeenBy(t) == SubSeq(regLog, 1, t.seen)

\* C9: after any sequence of registrations GET /tools and the RPC method
\* tools/list (whatever its params) return exactly the registered
\* descriptors in registration order, each with the name, description and
\* input schema passed to register_tool, and looking a name up for an
\* invocation finds the descriptor that the listing shows, with the handler
\* registered with it.
C9_ListingIsRegistrationOrder ==
    /\ \A s \in Slots :
           LET t == tasks[s] IN
           /\ (t.pc = "done" /\ t.route = "GET /tools") =>
                  /\ t.response.status = 200
                  /\ t.response.body = PyList(ExpectedListing(SeenBy(t)))
           /\ (t.pc = "done" /\ IsRpc(t) /\ t.request.method = "tools/list") =>
                  /\ t.response.status = 200
                  /\ t.response.body.result =
                         MkDict(<< <<"tools", PyList(ExpectedListing(SeenBy(t)))>> >>)
    /\ LET listing == ExpectedListing(regLog)
       IN  /\ Len(_tools) = Len(listing)
           /\ \A i \in 1..Len(listing) :
                  /\ DictHas(_tools, listing[i].name)
                  /\ DictGet(_tools, listing[i].name) = listing[i]
                  /\ HandlerOf(_handlers, listing[i].name) =
                         Returned(LastCall(regLog, listing[i].name).handler)

\* tools/list with params, after get_weather, get_news and get_weather
\* again (with another schema) were registered
C9_Witness ==
    \E s \in Slots :
        /\ tasks[s].pc = "done"
        /\ IsRpc(tasks[s])
        /\ tasks[s].request.method = "tools/list"
        /\ ~IsNone(tasks[s].request.params)
        /\ tasks[s].seen = 3
        /\ regLog[1].name = "get_weather"
        /\ regLog[2].name = "get_news"
        /\ regLog[3].name = "get_weather"
        /\ regLog[3].input_schema # regLog[1].input_schema
        /\ Len(tasks[s].response.body.result.dict["tools"].list) = 2

\* C10: a tools/call request without a name (no params, no name in params,
\* or an empty name) is answered with InvalidParams (-32602); the registry
\* is not consulted and no handler is called.
C10_MissingNameIsInvalidParams ==
    \A s \in Slots :
        LET t == tasks[s] IN
        (t.pc # "idle" /\ IsRpcCall(t) /\ ~Truthy(RpcName(t))) =>
            /\ t.pc = "done"
            /\ ErrorCodeOf(t) = INVALID_PARAMS
            /\ ~t.lookup
            /\ t.called = ""
            /\ t.upstream = 0

\* arguments are given, the name is not, and tools are registered
C10_Witness ==
    \E s \in Slots :
        /\ tasks[s].pc = "done"
        /\ IsRpcCall(tasks[s])
        /\ tasks[s].request.params = MkDict(<< <<"arguments", EmptyDict>> >>)
        /\ RegisteredNames # {}
        /\ ErrorCodeOf(tasks[s]) = INVALID_PARAMS

\* C11: an RPC request whose method is neither tools/list nor tools/call is
\* answered with MethodNotFound (-32601); no handler is called and nothing
\* is sent upstream, whatever its params name.
C11_UnknownMethodIsMethodNotFound ==
    \A s \in Slots :
        LET t == tasks[s] IN
        (t.pc # "idle" /\ IsRpc(t)
                       /\ t.request.method \notin {"tools/list", "tools/call"}) =>
            /\ t.pc = "done"
            /\ t.called = ""
            /\ t.upstream = 0
            /\ ErrorCodeOf(t) = METHOD_NOT_FOUND

\* an unknown method whose params name a registered tool
C11_Witness ==
    \E s \in Slots :
        /\ tasks[s].pc = "done"
        /\ IsRpc(tasks[s])
        /\ tasks[s].request.method = "resources/list"
        /\ RpcName(tasks[s]) = PyStr("get_news")
        /\ "get_news" \in RegisteredNames
        /\ ErrorCodeOf(tasks[s]) = METHOD_NOT_FOUND

\* the handler of the task got an HTTP response from the upstream: its
\* status, and 0 when the task got none (yet)
UpstreamStatus(t) ==
    IF t.pc = "done" /\ t.called # "" /\ "failed" \in DOMAIN t.reply /\ ~t.reply.failed
    THEN t.reply.status
    ELSE 0

\* C12: whatever the tool, an upstream response with status 401 is answered
\* with ApiKeyInvalid (-32002).
C12_Status401IsApiKeyInvalid ==
    \A s \in Slots :
        UpstreamStatus(tasks[s]) = 401 => ErrorCodeOf(tasks[s]) = API_KEY_INVALID

\* C13: whatever the tool, an upstream response with status 429 is answered
\* with RateLimitExceeded (-32004).
C13_Status429IsRateLimitExceeded ==
    \A s \in Slots :
        UpstreamStatus(tasks[s]) = 429 => ErrorCodeOf(tasks[s]) = RATE_LIMIT_EXCEEDED

\* the upstream answered with a status outside 2xx that is not 401 or 429
OtherFailureStatus(t) ==
    /\ UpstreamStatus(t) # 0
    /\ UpstreamStatus(t) \notin 200..299
    /\ UpstreamStatus(t) \notin {401, 429}

\* C14 as stated: whatever the tool, an upstream status outside 2xx other
\* than 401 and 429 is answered with ExternalApiError (-32003).
C14_OtherStatusIsExternalApiError ==
    \A s \in Slots :
        OtherFailureStatus(tasks[s]) => ErrorCodeOf(tasks[s]) = EXTERNAL_API_ERROR

\* C14 as amended: an upstream status outside 2xx other than 401 and 429 is
\* answered with ExternalApiError (-32003), except that get_weather answers
\* an upstream 404 with InvalidParams (-32602) whose data names the city.
C14_OtherStatusIsExternalApiErrorBut404OfWeather ==
    \A s \in Slots :
        LET t == tasks[s] IN
        OtherFailureStatus(t) =>
            IF t.called = "get_weather_handler" /\ UpstreamStatus(t) = 404
            THEN /\ ErrorCodeOf(t) = INVALID_PARAMS
                 /\ DOMAIN ErrorOf(t).data.dict = {"city"}
            ELSE ErrorCodeOf(t) = EXTERNAL_API_ERROR

\* the weather upstream answered 500 and the client got ExternalApiError
C14_Witness ==
    \E s \in Slots :
        /\ tasks[s].called = "get_weather_handler"
        /\ UpstreamStatus(tasks[s]) = 500
        /\ ErrorCodeOf(tasks[s]) = EXTERNAL_API_ERROR
        /\ ErrorOf(tasks[s]).data.dict["status_code"] = PyInt(500)

IsStockTask(t) == t.called \in {"get_stock_price_handler", "search_stocks_handler"}

\* the upstream answered 200 with a JSON object that has the key
UpstreamBodyHas(t, key) ==
    /\ UpstreamStatus(t) = 200
    /\ IsDict(t.reply.json)
    /\ key \in DOMAIN t.reply.json.dict

\* C15 as stated: for both stock tools, an upstream 200 whose body has the
\* key "Note" is answered with RateLimitExceeded (-32004).
C15_NoteIsRateLimitExceeded ==
    \A s \in Slots :
        LET t == tasks[s] IN
        (IsStockTask(t) /\ UpstreamBodyHas(t, "Note")) =>
            ErrorCodeOf(t) = RATE_LIMIT_EXCEEDED

\* C15 as amended: for both stock tools, an upstream 200 whose body has the
\* key "Note" is never answered with a success, and it is answered with
\* RateLimitExceeded (-32004) when the body has no "Error Message" key
\* (that key is tested first and decides the error when both are there).
C15_NoteWithoutErrorMessageIsRateLimitExceeded ==
    \A s \in Slots :
        LET t == tasks[s] IN
        (IsStockTask(t) /\ UpstreamBodyHas(t, "Note")) =>
            /\ ~IsNone(ErrorOf(t))
            /\ ~UpstreamBodyHas(t, "Error Message") =>
                   ErrorCodeOf(t) = RATE_LIMIT_EXCEEDED

\* search_stocks got a 200 with the rate-limit note
C15_Witness ==
    \E s \in Slots :
        /\ tasks[s].called = "search_stocks_handler"
        /\ UpstreamBodyHas(tasks[s], "Note")
        /\ ~UpstreamBodyHas(tasks[s], "Error Message")
        /\ ErrorCodeOf(tasks[s]) = RATE_LIMIT_EXCEEDED

\* C16: for both stock tools, an upstream 200 whose body has the key
\* "Error Message" is answered with InvalidParams (-32602), never with a
\* success.
C16_ErrorMessageIsInvalidParams ==
    \A s \in Slots :
        LET t == tasks[s] IN
        (IsStockTask(t) /\ UpstreamBodyHas(t, "Error Message")) =>
            ErrorCodeOf(t) = INVALID_PARAMS

\* the argument mapping the handler of the task was called with
ArgumentsOf(t) ==
    IF IsInvoke(t) THEN t.request
    ELSE IF IsDict(t.request.params) /\ "arguments" \in DOMAIN t.request.params.dict
    THEN t.request.params.dict["arguments"]
    ELSE EmptyDict

\* the argument, None when the mapping has none
Argument(args, field) ==
    IF field \in DOMAIN args.dict THEN args.dict[field] ELSE PyNone

\* a required string that is missing, empty or blank
MissingOrBlank(v) == IsNone(v) \/ (IsStr(v) /\ v.str \in {"", " "})

\* The arguments of the mapping that fail the validation the claim lists
\* for the handler, as <<field, value received>>.
InvalidArguments(handler, args) ==
    LET required == CASE handler = "get_weather_handler" -> {"city"}
                      [] handler = "get_stock_price_handler" -> {"symbol"}
                      [] handler = "search_stocks_handler" -> {"keywords"}
                      [] OTHER -> {}
        units == Argument(args, "units")
        category == Argument(args, "category")
        page_size == Argument(args, "page_size")
    IN  {<<f, Argument(args, f)>> : f \in {g \in required :
                                             MissingOrBlank(Argument(args, g))}}
        \cup (IF handler = "get_weather_handler" /\ IsStr(units)
                 /\ units.str \notin {"metric", "imperial", "kelvin"}
              THEN {<<"units", units>>} ELSE {})
        \cup (IF handler = "get_news_handler" /\ IsStr(category) /\ category.str # ""
                 /\ category.str \notin {"business", "entertainment", "general",
                                         "health", "science", "sports", "technology"}
              THEN {<<"category", category>>} ELSE {})
        \cup (IF handler = "get_news_handler" /\ IsInt(page_size)
                 /\ page_size.int \notin 1..100
              THEN {<<"page_size", page_size>>} ELSE {})

RequestedTool(t) ==
    IF IsInvoke(t) THEN t.tool_name
    ELSE IF IsRpcCall(t) /\ IsStr(RpcName(t)) THEN RpcName(t).str
    ELSE ""

\* the credential of the upstream API of a tool, and the name of that API
CredentialOf(tool) ==
    CASE tool = "get_weather" -> settings.openweather_api_key
      [] tool = "get_news" -> settings.news_api_key
      [] OTHER -> settings.alpha_vantage_api_key

ApiNameOf(tool) ==
    CASE tool = "get_weather" -> "OpenWeatherMap"
      [] tool = "get_news" -> "News API"
      [] OTHER -> "Alpha Vantage"

\* C18: an invocation of a tool whose upstream credential is not configured
\* sends nothing upstream and is answered with ApiKeyMissing (-32001) whose
\* data names the API.
C18_MissingCredentialIsApiKeyMissing ==
    \A s \in Slots :
        LET t == tasks[s] IN
        (t.pc # "idle" /\ RequestedTool(t) \in ToolNames
                       /\ ~Truthy(CredentialOf(RequestedTool(t)))) =>
            /\ t.pc = "done"
            /\ t.upstream = 0
            /\ ErrorCodeOf(t) = API_KEY_MISSING
            /\ ErrorOf(t).data = MkDict(<< <<"api", PyStr(ApiNameOf(RequestedTool(t)))>> >>)

\* the task called get_news with an argument mapping and the handler sent
\* its upstream request
SentNewsRequest(t) ==
    /\ t.called = "get_news_handler"
    /\ t.upstream > 0
    /\ IsDict(ArgumentsOf(t))

\* C19: get_news with a non-empty query requests the "everything" endpoint
\* with sortBy=publishedAt and language=en; without one it requests
\* "top-headlines", with the given country when there is one, with
\* country "us" when neither category nor country is given, and with no
\* country when only a category is given.
C19_NewsEndpointSelection ==
    \A s \in Slots :
        LET t == tasks[s]
            args == ArgumentsOf(t)
            query == Argument(args, "query")
            category == Argument(args, "category")
            country == Argument(args, "country")
            sent == t.call.params.dict
        IN  SentNewsRequest(t) =>
                IF Truthy(query)
                THEN /\ t.call.url = "https://newsapi.org/v2/everything"
                     /\ "q" \in DOMAIN sent /\ sent["q"] = query
                     /\ "sortBy" \in DOMAIN sent /\ sent["sortBy"] = PyStr("publishedAt")
                     /\ "language" \in DOMAIN sent /\ sent["language"] = PyStr("en")
                ELSE /\ t.call.url = "https://newsapi.org/v2/top-headlines"
                     /\ "q" \notin DOMAIN sent
                     /\ IF Truthy(country)
                        THEN "country" \in DOMAIN sent /\ sent["country"] = country
                        ELSE IF Truthy(category)
                        THEN "country" \notin DOMAIN sent
                        ELSE "country" \in DOMAIN sent /\ sent["country"] = PyStr("us")

\* a category alone: top-headlines, and no country is sent
C19_Witness ==
    \E s \in Slots :
        /\ SentNewsRequest(tasks[s])
        /\ ArgumentsOf(tasks[s]) = MkDict(<< <<"category", PyStr("business")>> >>)
        /\ tasks[s].call.url = "https://newsapi.org/v2/top-headlines"
        /\ DOMAIN tasks[s].call.params.dict = {"pageSize", "category", "apiKey"}

\* the upstream call of the task failed: no response came (connection
\* failure, timeout) or the response has a status outside 2xx
UpstreamFailed(t) ==
    /\ "failed" \in DOMAIN t.reply
    /\ t.reply.failed \/ t.reply.status \notin 200..299

\* the kinds a handler translates an upstream failure into
UpstreamErrorCodes ==
    {API_KEY_INVALID, RATE_LIMIT_EXCEEDED, EXTERNAL_API_ERROR, INVALID_PARAMS}

\* C20: an invocation sends at most one upstream request, and when that
\* request fails (no response, or a status outside 2xx) the invocation ends
\* there: the handler raises one taxonomy error made from that failure, and
\* the response of the same invocation carries it, never a success.
C20_NoRetryAndFailureSurfaced ==
    \A s \in Slots :
        LET t == tasks[s] IN
        /\ t.upstream <= 1
        /\ UpstreamFailed(t) =>
               /\ t.pc = "done"
               /\ IsAPIError(t.raised)
               /\ t.raised.code \in UpstreamErrorCodes
               /\ t.reply.failed => t.raised.original_error = t.reply.exc
               /\ ~IsNone(ErrorOf(t))
               /\ ErrorCodeOf(t) = t.raised.code
               /\ ErrorOf(t).message = t.raised.message

\* the connection to the stock upstream failed and the one request made is
\* answered with ExternalApiError
C20_Witness ==
    \E s \in Slots :
        /\ tasks[s].called = "get_stock_price_handler"
        /\ UpstreamFailed(tasks[s])
        /\ tasks[s].reply.failed
        /\ tasks[s].upstream = 1
        /\ tasks[s].pc = "done"
        /\ ErrorCodeOf(tasks[s]) = EXTERNAL_API_ERROR

SameInputs(t1, t2) ==
    /\ t1.route = t2.route
    /\ t1.tool_name = t2.tool_name
    /\ t1.request = t2.request
    /\ t1.reply = t2.reply

\* get_news answered the task with a result
IsNewsSuccess(t) ==
    t.pc = "done" /\ t.called = "get_news_handler" /\ IsNone(ErrorOf(t))

\* the dict a handler returned, as the response of either adapter carries it
HandlerResultOf(t) ==
    IF IsInvoke(t) THEN t.response.body.data
    ELSE t.response.body.result.dict["content"].list[1].dict["text"].repr

WithoutRetrievedAt(result) ==
    PyDict([k \in DOMAIN result.dict \ {"retrieved_at"} |-> result.dict[k]])

\* C22 as stated: the response of an invocation is a function of its
\* adapter, tool name, arguments, the configuration and the upstream
\* answer: in every interleaving, two invocations with the same inputs get
\* the same response.
C22_SameInputsSameResponse ==
    \A s1, s2 \in DOMAIN tasks :
        (tasks[s1].pc = "done" /\ tasks[s2].pc = "done"
                               /\ SameInputs(tasks[s1], tasks[s2])) =>
            tasks[s1].response = tasks[s2].response

\* C22 as amended: in every interleaving, two invocations with the same
\* adapter, tool name, arguments, configuration and upstream answer get the
\* same response, except that the retrieved_at of a get_news result is the
\* time of the invocation; in particular repeated identical get_weather
\* invocations give identical output.
C22_SameInputsSameResponseButRetrievedAt ==
    \A s1, s2 \in DOMAIN tasks :
        LET t1 == tasks[s1]
            t2 == tasks[s2]
        IN  (t1.pc = "done" /\ t2.pc = "done" /\ SameInputs(t1, t2)) =>
                IF IsNewsSuccess(t1)
                THEN /\ IsNewsSuccess(t2)
                     /\ WithoutRetrievedAt(HandlerResultOf(t1))
                            = WithoutRetrievedAt(HandlerResultOf(t2))
                ELSE t1.response = t2.response

\* get_weather for Paris in metric units was invoked twice, the upstream
\* gave the same answer, and both got the same normalized output
C22_Witness ==
    \E s1, s2 \in DOMAIN tasks :
        /\ s1 # s2
        /\ tasks[s1].pc = "done" /\ tasks[s2].pc = "done"
        /\ IsInvoke(tasks[s1])
        /\ tasks[s1].tool_name = "get_weather"
        /\ tasks[s1].request = MkDict(<< <<"city", PyStr("Paris")>>,
                                         <<"units", PyStr("metric")>> >>)
        /\ SameInputs(tasks[s1], tasks[s2])
        /\ UpstreamStatus(tasks[s1]) = 200
        /\ tasks[s1].response.body.success
        /\ tasks[s1].response.body.data = tasks[s2].response.body.data

\* the API and the operation a handler names when it translates a failure
ApiOfHandler(handler) ==
    CASE handler = "get_weather_handler" -> "OpenWeatherMap"
      [] handler = "get_news_handler" -> "News API"
      [] OTHER -> "Alpha Vantage"

OperationOfHandler(handler) ==
    CASE handler = "get_weather_handler" -> "get_weather"
      [] handler = "get_news_handler" -> "get_news"
      [] handler = "get_stock_price_handler" -> "get_stock_quote"
      [] OTHER -> "get_stock_search"

\* The upstream call of the task ended in an exception that is no taxonomy
\* error: no response (connection failure, timeout), a 200 body that is not
\* JSON, or a 200 body that lacks what the normalizer reads.
RawUpstreamFailure(t) ==
    /\ t.pc = "done"
    /\ "failed" \in DOMAIN t.reply
    /\ \/ t.reply.failed
       \/ /\ t.reply.status = 200
          /\ t.reply.json \in {NotJSON, WeatherBodyIncomplete, NewsBodyNullSource,
                               QuoteBodyBadPrice}

\* C23: an exception of the upstream call or of parsing and normalizing its
\* answer that is no taxonomy error is answered with ExternalApiError
\* (-32003) whose data names the API and the operation; a taxonomy error
\* raised in the same scope reaches the adapter as it was raised, not
\* wrapped into another error.
C23_RawFailureIsExternalApiError ==
    /\ \A s \in Slots : RawUpstreamFailure(tasks[s]) => ~IsNone(ErrorOf(tasks[s]))
    /\ \A s \in Slots :
           LET t == tasks[s] IN
           (t.pc = "done" /\ "failed" \in DOMAIN t.reply /\ ~IsNone(ErrorOf(t))) =>
               /\ IsAPIError(t.raised)
               /\ IF RawUpstreamFailure(t)
                  THEN /\ ErrorCodeOf(t) = EXTERNAL_API_ERROR
                       /\ ~IsNone(t.raised.original_error)
                       /\ ~IsAPIError(t.raised.original_error)
                       /\ IsDict(ErrorOf(t).data)
                       /\ {"api", "operation"} \subseteq DOMAIN ErrorOf(t).data.dict
                       /\ ErrorOf(t).data.dict["api"] = PyStr(ApiOfHandler(t.called))
                       /\ ErrorOf(t).data.dict["operation"]
                              = PyStr(OperationOfHandler(t.called))
                  ELSE /\ IsNone(t.raised.original_error)
                       /\ ErrorCodeOf(t) = t.raised.code
                       /\ IsDict(t.raised.data) =>
                              "operation" \notin DOMAIN t.raised.data.dict

\* the weather upstream answered 200 with a body that lacks the fields the
\* normalizer reads
C23_Witness ==
    \E s \in Slots :
        /\ tasks[s].called = "get_weather_handler"
        /\ RawUpstreamFailure(tasks[s])
        /\ ~tasks[s].reply.failed
        /\ tasks[s].reply.json = WeatherBodyIncomplete
        /\ ErrorCodeOf(tasks[s]) = EXTERNAL_API_ERROR
        /\ ErrorOf(tasks[s]).data.dict["operation"] = PyStr("get_weather")

\* C24: in every handler the credential check comes first: a handler that
\* is called without its credential and with an argument that fails
\* validation is answered with ApiKeyMissing (-32001), not InvalidParams.
C24_CredentialCheckedFirst ==
    \A s \in Slots :
        LET t == tasks[s] IN
        (/\ t.pc = "done"
         /\ t.called # ""
         /\ ~Truthy(CredentialOf(RequestedTool(t)))
         /\ IsDict(ArgumentsOf(t))
         /\ InvalidArguments(t.called, ArgumentsOf(t)) # {}) =>
            ErrorCodeOf(t) = API_KEY_MISSING

\* C25: the registry is read-only once the server is started: no request
\* (a listing, a tool call through either adapter, a failing call, the
\* upstream answer of a call) changes the registered names, their
\* descriptors, their handlers or their order.
C25_RegistryReadOnlyAfterStartup ==
    [][started => (_tools' = _tools /\ _handlers' = _handlers)]_vars

\* a tool call went upstream and was answered, and its tool is still
\* registered with its handler
C25_Witness ==
    \E s \in Slots :
        /\ started
        /\ tasks[s].pc = "done"
        /\ tasks[s].upstream = 1
        /\ IsInvoke(tasks[s])
        /\ DictHas(_tools, tasks[s].tool_name)
        /\ DictGet(_handlers, tasks[s].tool_name) = tasks[s].called

\* the order in which create_app registers the tools
StartupOrder == <<"get_weather", "get_news", "get_stock_price", "search_stocks">>

\* C26: once create_app has run, get_weather is registered exactly when the
\* OpenWeatherMap key is configured, get_news exactly when the News key is,
\* get_stock_price and search_stocks exactly when the Alpha Vantage key is,
\* each with its own handler, and the registered tools are in the order
\* get_weather, get_news, get_stock_price, search_stocks.
C26_StartupRegistersByCredential ==
    started =>
        LET configured == SelectSeq(StartupOrder,
                                    LAMBDA n : ~IsNone(CredentialOf(n)))
        IN  /\ DictKeys(_tools) = configured
            /\ DictKeys(_handlers) = configured
            /\ \A n \in ToolNames :
                   DictHas(_tools, n) =>
                       /\ DictGet(_tools, n).name = n
                       /\ DictGet(_handlers, n) = n \o "_handler"

\* only the OpenWeatherMap and Alpha Vantage keys are configured, and the
\* server lists the weather tool and the two stock tools
C26_Witness ==
    /\ started
    /\ ~IsNone(settings.openweather_api_key)
    /\ IsNone(settings.news_api_key)
    /\ ~IsNone(settings.alpha_vantage_api_key)
    /\ DictKeys(_tools) = <<"get_weather", "get_stock_price", "search_stocks">>

\* C27: after any sequence of register_tool calls the descriptor mapping
\* and the handler mapping hold the same names (in the same order), so the
\* handler lookup of an invocation succeeds for every name that passes the
\* membership test on the descriptors, and for no other name.
C27_ToolsAndHandlersSameNames ==
    /\ DictKeys(_tools) = DictKeys(_handlers)
    /\ \A n \in RegNames \cup {"unknown_tool"} :
           LET try == invoke_tool_try(_tools, _handlers, settings, n, EmptyDict)
           IN  /\ DictHas(_tools, n) <=> n \in RegisteredNames
               /\ DictHas(_tools, n) =>
                      /\ HandlerOf(_handlers, n).kind = "return"
                      /\ try.called = HandlerOf(_handlers, n).value
               /\ ~DictHas(_tools, n) =>
                      /\ HandlerOf(_handlers, n).kind = "raise"
                      /\ try.called = ""
                      /\ try.outcome = Raised(ToolNotFound(n))

\* get_news was registered, then get_weather twice with different handlers
C27_Witness ==
    /\ Len(regLog) = 3
    /\ regLog[1].name = "get_news"
    /\ regLog[2].name = "get_weather"
    /\ regLog[3].name = "get_weather"
    /\ regLog[3].handler # regLog[2].handler
    /\ DictKeys(_handlers) = <<"get_news", "get_weather">>

\* C28: a register_tool call whose name is already registered replaces the
\* descriptor and the handler of that name with the ones passed, keeps the
\* name's position in the listing, and leaves every other entry and the
\* number of entries unchanged.
C28_ReRegistrationReplacesInPlace ==
    [][(Len(regLog') = Len(regLog) + 1 /\ DictHas(_tools, regLog'[Len(regLog')].name)) =>
          LET call == regLog'[Len(regLog')]
          IN  /\ DictKeys(_tools') = DictKeys(_tools)
              /\ DictKeys(_handlers') = DictKeys(_handlers)
              /\ DictGet(_tools', call.name) = DescriptorOf(call)
              /\ DictGet(_handlers', call.name) = call.handler
              /\ \A n \in RegisteredNames \ {call.name} :
                     /\ DictGet(_tools', n) = DictGet(_tools, n)
                     /\ DictGet(_handlers', n) = DictGet(_handlers, n)]_vars

\* get_weather and get_news were registered, then get_news again with
\* another description and another handler: get_news is still second and
\* has the new descriptor and handler, get_weather is as it was
C28_Witness ==
    /\ Len(regLog) = 3
    /\ regLog[1].name = "get_weather"
    /\ regLog[2].name = "get_news"
    /\ regLog[3].name = "get_news"
    /\ regLog[3].description # regLog[2].description
    /\ regLog[3].handler # regLog[2].handler
    /\ DictKeys(_tools) = <<"get_weather", "get_news">>
    /\ DictGet(_tools, "get_news") = DescriptorOf(regLog[3])
    /\ DictGet(_handlers, "get_news") = regLog[3].handler
    /\ DictGet(_handlers, "get_weather") = regLog[1].handler

\* the first task asked POST /tools/{name} and the second the RPC method
\* tools/call for the same tool with the same arguments, and the upstream
\* gave both the same answer (or was asked by neither)
SameCallThroughBothAdapters(t1, t2) ==
    /\ t1.pc = "done" /\ t2.pc = "done"
    /\ IsInvoke(t1)
    /\ IsRpcCall(t2)
    /\ RequestedTool(t2) = t1.tool_name
    /\ ArgumentsOf(t2) = t1.request
    /\ t1.reply = t2.reply

\* C29: the two adapters agree: for the same registry, tool name, arguments
\* and upstream answer, POST /tools/{name} answers success=true exactly
\* when the RPC tools/call answers with a result and no error, both call
\* the same handler, and when they fail their errors have the same code,
\* message and data.
C29_AdaptersAgree ==
    \A s1, s2 \in ConcurrentSlots :
        LET t1 == tasks[s1]
            t2 == tasks[s2]
        IN  SameCallThroughBothAdapters(t1, t2) =>
                /\ t1.response.status = 200
                /\ t2.response.status = 200
                /\ t1.called = t2.called
                /\ t1.response.body.success <=> IsNone(ErrorOf(t1))
                /\ t1.response.body.success <=>
                       (~IsNone(t2.response.body.result) /\ IsNone(ErrorOf(t2)))
                /\ ErrorOf(t1) = ErrorOf(t2)

\* get_weather for Paris was called through both adapters, the connection
\* to the upstream failed for both, and both answered ExternalApiError
C29_Witness ==
    \E s1, s2 \in ConcurrentSlots :
        /\ SameCallThroughBothAdapters(tasks[s1], tasks[s2])
        /\ tasks[s1].tool_name = "get_weather"
        /\ tasks[s1].upstream = 1
        /\ "failed" \in DOMAIN tasks[s1].reply
        /\ tasks[s1].reply.failed
        /\ ~tasks[s1].response.body.success
        /\ ErrorCodeOf(tasks[s1]) = EXTERNAL_API_ERROR
        /\ ErrorCodeOf(tasks[s2]) = EXTERNAL_API_ERROR

\* the task is a tools/call request whose params name a registered tool and
\* have no `arguments` key
CallWithoutArguments(t) ==
    /\ t.pc # "idle"
    /\ IsRpcCall(t)
    /\ IsDict(t.request.params)
    /\ "arguments" \notin DOMAIN t.request.params.dict
    /\ IsStr(RpcName(t))
    /\ DictHas(_tools, RpcName(t).str)

\* C30: an RPC tools/call that names a registered tool and has no
\* `arguments` key calls the tool's handler with the empty mapping: the
\* tools with a required argument answer InvalidParams (-32602) naming that
\* argument without going upstream, and get_news, which requires none,
\* sends its default request upstream.
C30_MissingArgumentsIsEmptyMapping ==
    \A s \in Slots :
        LET t == tasks[s]
            expected == HandlerStart(t.called, settings, EmptyDict)
        IN  CallWithoutArguments(t) =>
                /\ t.called = DictGet(_handlers, RpcName(t).str)
                /\ IF t.called = "get_news_handler"
                   THEN /\ t.upstream = 1
                        /\ expected.kind = "await"
                        /\ t.call = expected.call
                   ELSE /\ t.pc = "done"
                        /\ t.upstream = 0
                        /\ t.raised = expected.exc
                        /\ ErrorCodeOf(t) = INVALID_PARAMS
                        /\ ErrorOf(t).data.dict["field"] \in
                               {PyStr("city"), PyStr("symbol"), PyStr("keywords")}
                        /\ ErrorOf(t).data.dict["value"] = PyNone

\* tools/call with params {"name": "get_stock_price"} and nothing else was
\* answered with InvalidParams for the missing symbol
C30_Witness ==
    \E s \in Slots :
        /\ CallWithoutArguments(tasks[s])
        /\ tasks[s].pc = "done"
        /\ tasks[s].request.params = MkDict(<< <<"name", PyStr("get_stock_price")>> >>)
        /\ tasks[s].called = "get_stock_price_handler"
        /\ ErrorCodeOf(tasks[s]) = INVALID_PARAMS
        /\ ErrorOf(tasks[s]).data.dict["field"] = PyStr("symbol")

====
